---- MODULE Spec2Model ----
(***************************************************************************)
(* Model of the eclair note-taking backend: the AI routes (routes/ai.js),  *)
(* the web-summary routes (routes/web-summary.js), the youtube-summary     *)
(* routes (routes/youtube-summary.js) and the notes / workspaces CRUD      *)
(* routes over the document store.                                         *)
(*                                                                         *)
(* Strings are sequences of tokens.  The tokens "<think>", "<THINK>",      *)
(* "</think>" and "</THINK>" are the think delimiters, " " is a whitespace *)
(* character and every other token is an ordinary character.               *)
(***************************************************************************)
EXTENDS Integers, Sequences, FiniteSets, TLC

\* ------------------------------------------------------------------ bounds
MaxChunks == 3        \* upstream chunks consumed per streaming request
MaxTextLen == 5       \* tokens of a text handed to removeThinkBlocks
MaxDocs == 1          \* documents ever added to the store
MaxVersion == 2       \* highest version a note is updated to
MaxElements == 2      \* elements of a fetched page
MaxUrlPieces == 3     \* pieces of a video URL

\* ----------------------------------------------------------------- strings
ChunkAlphabet == {"<think>", "</think>", "a", " "}
ThinkAlphabet == ChunkAlphabet \cup {"<THINK>", "</THINK>"}

SeqsUpTo(S, n) == UNION {[1..k -> S] : k \in 0..n}

IsOpen(t) == t \in {"<think>", "<THINK>"}
IsClose(t) == t \in {"</think>", "</THINK>"}
IsSpace(t) == t = " "

\* String.prototype.trim
RECURSIVE TrimLeft(_)
TrimLeft(s) ==
  IF s # <<>> /\ IsSpace(Head(s)) THEN TrimLeft(Tail(s)) ELSE s

RECURSIVE TrimRight(_)
TrimRight(s) ==
  IF s # <<>> /\ IsSpace(s[Len(s)]) THEN TrimRight(SubSeq(s, 1, Len(s) - 1)) ELSE s

Trim(s) == TrimRight(TrimLeft(s))

\* index of the first closing delimiter after position i, 0 when there is none
FirstCloseAfter(s, i) ==
  IF \E j \in (i + 1)..Len(s) : IsClose(s[j])
  THEN CHOOSE j \in (i + 1)..Len(s) :
         IsClose(s[j]) /\ \A k \in (i + 1)..(j - 1) : ~IsClose(s[k])
  ELSE 0

\* text.replace(/<think>[\s\S]*?<\/think>/gi, ''): a left-to-right scan; at an
\* opening delimiter the lazy quantifier stops at the first closing delimiter
RECURSIVE ReplaceThink(_, _)
ReplaceThink(s, i) ==
  IF i > Len(s) THEN <<>>
  ELSE IF IsOpen(s[i]) /\ FirstCloseAfter(s, i) # 0
       THEN ReplaceThink(s, FirstCloseAfter(s, i) + 1)
       ELSE <<s[i]>> \o ReplaceThink(s, i + 1)

\* index of the last closing delimiter after position i, 0 when there is none
LastCloseAfter(s, i) ==
  IF \E j \in (i + 1)..Len(s) : IsClose(s[j])
  THEN CHOOSE j \in (i + 1)..Len(s) :
         IsClose(s[j]) /\ \A k \in (j + 1)..Len(s) : ~IsClose(s[k])
  ELSE 0

\* ReplaceThink with the greedy quantifier /<think>[\s\S]*<\/think>/gi
RECURSIVE ReplaceThinkGreedy(_, _)
ReplaceThinkGreedy(s, i) ==
  IF i > Len(s) THEN <<>>
  ELSE IF IsOpen(s[i]) /\ LastCloseAfter(s, i) # 0
       THEN ReplaceThinkGreedy(s, LastCloseAfter(s, i) + 1)
       ELSE <<s[i]>> \o ReplaceThinkGreedy(s, i + 1)

\* removeThinkBlocks with the greedy pattern
removeThinkBlocksGreedy(text) ==
  IF text = <<>> THEN text ELSE Trim(ReplaceThinkGreedy(text, 1))

\* the text before the first opening delimiter of s
RECURSIVE BeforeOpen(_)
BeforeOpen(s) ==
  IF s = <<>> \/ IsOpen(Head(s)) THEN <<>> ELSE <<Head(s)>> \o BeforeOpen(Tail(s))

\* removeThinkBlocks that also strips an unterminated block: the pattern
\* /<think>[\s\S]*?(<\/think>|$)/gi
removeThinkBlocksUnterminated(text) ==
  IF text = <<>> THEN text ELSE Trim(BeforeOpen(ReplaceThink(text, 1)))

\* removeThinkBlocks: '' and undefined are returned as they are
removeThinkBlocks(text) ==
  IF text = <<>> THEN text ELSE Trim(ReplaceThink(text, 1))

\* ------------------------------------------------------- run-length texts
\* The texts whose length matters (page content, request content, transcripts)
\* are sequences of runs <<character, count>>, count >= 1, no two neighbouring
\* runs of the same character: "aaa  b" is << <<"a", 3>>, <<" ", 2>>, <<"b", 1>> >>.
Text(ch, n) == IF n <= 0 THEN <<>> ELSE << <<ch, n>> >>

\* a + b
TextConcat(a, b) ==
  IF a = <<>> THEN b
  ELSE IF b = <<>> THEN a
  ELSE IF a[Len(a)][1] = b[1][1]
       THEN SubSeq(a, 1, Len(a) - 1) \o << <<b[1][1], a[Len(a)][2] + b[1][2]>> >> \o Tail(b)
       ELSE a \o b

\* t.length
RECURSIVE TextLength(_)
TextLength(t) == IF t = <<>> THEN 0 ELSE Head(t)[2] + TextLength(Tail(t))

\* \s of a regular expression, the characters String.prototype.trim removes
IsWhitespace(ch) == ch \in {" ", "\n"}

RECURSIVE TextTrimLeft(_)
TextTrimLeft(t) ==
  IF t # <<>> /\ IsWhitespace(Head(t)[1]) THEN TextTrimLeft(Tail(t)) ELSE t

RECURSIVE TextTrimRight(_)
TextTrimRight(t) ==
  IF t # <<>> /\ IsWhitespace(t[Len(t)][1]) THEN TextTrimRight(SubSeq(t, 1, Len(t) - 1)) ELSE t

\* t.trim()
TextTrim(t) == TextTrimRight(TextTrimLeft(t))

\* t.replace(/\s+/g, ' '): every maximal stretch of whitespace becomes one space
RECURSIVE TextCollapse(_)
TextCollapse(t) ==
  IF t = <<>> THEN <<>>
  ELSE IF IsWhitespace(Head(t)[1])
       THEN << <<" ", 1>> >> \o TextCollapse(TextTrimLeft(t))
       ELSE <<Head(t)>> \o TextCollapse(Tail(t))

\* t.substring(0, n)
RECURSIVE TextSubstring(_, _)
TextSubstring(t, n) ==
  IF t = <<>> \/ n <= 0 THEN <<>>
  ELSE IF Head(t)[2] <= n
       THEN <<Head(t)>> \o TextSubstring(Tail(t), n - Head(t)[2])
       ELSE << <<Head(t)[1], n>> >>

\* parts.join(sep)
RECURSIVE TextJoin(_, _)
TextJoin(parts, sep) ==
  IF parts = <<>> THEN <<>>
  ELSE IF Len(parts) = 1 THEN parts[1]
  ELSE TextConcat(TextConcat(parts[1], sep), TextJoin(Tail(parts), sep))

\* ------------------------------------------------------ program constants
MinContentLength == 50        \* extracted.content.length < 50
MaxContentLength == 50000     \* parseInt(process.env.MAX_CONTENT_LENGTH) || 50000
TruncationMarkerLength == 22  \* '...[content truncated]'.length
MinTranscriptLength == 10     \* fullTranscript.trim().length < 10
MinCandidateLength == 100      \* content.length < 100
TranscriptPreviewLength == 1000 \* fullTranscript.substring(0, 1000)
VideoIdLength == 11           \* videoId.length !== 11

\* ------------------------------------------------------------------ state
Slots == {1, 2}               \* requests that can be in flight together
Users == {"u1", "u2"}
Undefined == "undefined"      \* a field missing from the request body

VARIABLES
  req,      \* req[s]: the request handled in slot s and its response object
  store,    \* the document store: collection -> id -> record ("none" when absent)
  gate      \* what the middleware in front of the routes keeps: the environment,
            \* the rate limiters' hit counts and the usage tracker's daily counts

vars == <<req, store, gate>>

\* the response object of a request before anything is written or sent
FreshRes ==
  [statusCode |-> 200, headersSent |-> FALSE, ended |-> FALSE,
   jsonBody |-> "", data |-> "none", summary |-> <<>>, fullTranscript |-> <<>>,
   disclosed |-> {},
   \* the X-Daily-* headers and the usage of a 429 body, -1 when not set
   dailyUsage |-> -1, dailyLimit |-> -1, dailyRemaining |-> -1, reported |-> -1,
   frames |-> <<>>]

NoBody == [kind |-> "none"]

\* strings of the store requests are token sequences; a missing field is Missing
Missing == <<Undefined>>

\* an updateData / updates object with no field set (version 0: not set)
NoUpdate == [version |-> 0, title |-> Missing, content |-> Missing, name |-> Missing]

IdleReq ==
  [endpoint |-> "none", body |-> NoBody, pc |-> "idle", res |-> FreshRes,
   calls |-> {}, error |-> "none", fullResponse |-> <<>>, received |-> <<>>,
   completion |-> <<>>, connected |-> TRUE, prompt |-> "none", embeddedLen |-> 0, extractedLen |-> 0,
   page |-> <<>>, extracted |-> <<>>, embedded |-> <<>>, videoId |-> <<>>,
   user |-> "none", upd |-> NoUpdate,
   ip |-> "none",     \* req.ip, where a middleware reads it
   seq |-> 0]         \* the request's number among its client's (history only)

\* a request as it enters its route handler
NewReq(endpoint, body) == [IdleReq EXCEPT !.endpoint = endpoint, !.body = body]

\* res.status(code).json({error: label, ...}) / res.json(...)
Json(r, code, label) ==
  [r EXCEPT !.statusCode = code, !.jsonBody = label, !.headersSent = TRUE, !.ended = TRUE]

\* res.write(`data: ${JSON.stringify(frame)}\n\n`): the first write flushes the
\* headers with the status code set so far
Write(r, frame) ==
  [r EXCEPT !.frames = Append(@, frame), !.headersSent = TRUE]

\* res.end()
End(r) == [r EXCEPT !.ended = TRUE]

\* the four frame shapes, as objects with the keys the code gives them
\* ("" / <<>> / FALSE stand for an absent key)
StatusFrame(status) ==
  [status |-> status, content |-> <<>>, finished |-> FALSE, fullResponse |-> <<>>,
   error |-> "", message |-> ""]
DeltaFrame(content) ==
  [status |-> "", content |-> content, finished |-> FALSE, fullResponse |-> <<>>,
   error |-> "", message |-> ""]
FinishedFrame(cleaned) ==
  [status |-> "", content |-> <<>>, finished |-> TRUE, fullResponse |-> cleaned,
   error |-> "", message |-> ""]
ErrorFrame(label, message) ==
  [status |-> "", content |-> <<>>, finished |-> FALSE, fullResponse |-> <<>>,
   error |-> label, message |-> message]

\* how a reader of the stream tells the frames apart (test-node.js chatWithAI)
IsStatusFrame(f) == f.status # ""
IsErrorFrame(f) == f.error # ""
IsFinishedFrame(f) == f.finished
IsDeltaFrame(f) == f.content # <<>>
IsTerminalFrame(f) == IsFinishedFrame(f) \/ IsErrorFrame(f)

\* JavaScript truthiness of a string field: undefined and '' are falsy
Truthy(x) == x # Undefined /\ x # ""

\* error.message of the errors the handlers catch
ErrorMessage(e) ==
  CASE e = "ECONNABORTED" -> "timeout of 10000ms exceeded"
    [] e = "HTTP404" -> "Request failed with status code 404"
    [] e = "ENOTFOUND" -> "getaddrinfo ENOTFOUND"
    [] e = "LLM" -> "Connection error."
    [] e = "STREAM" -> "Premature close"
    [] OTHER -> "error"

\* validateContent (middleware/security.js): the body matches a suspicious pattern
validateContent(body) == ~body.suspicious

\* res.status(code).json(...) and return: the handler is finished
Reject(q, code, label) == [q EXCEPT !.res = Json(@, code, label), !.pc = "done"]

\* ------------------------------------------------------------ request inputs
Prompts == {Undefined, "", "p"}
Actions == {Undefined, "generate", "expand", "summarize", "translate"}
SummaryTypes == {Undefined, "general", "brief", "bullet_points", "detailed", "haiku"}

ChatBodies ==
  [kind : {"chat"}, suspicious : BOOLEAN, prompt : Prompts]
GenerateNoteBodies ==
  [kind : {"generate-note"}, suspicious : {FALSE}, prompt : {"", "p"}, action : Actions]

\* what the upstream completion stream can yield: a chunk whose delta carries
\* text (possibly ''), or a chunk with no delta content (role or finish chunk)
ChunkTexts == {<<>>} \cup {<<t>> : t \in ChunkAlphabet}
Chunks ==
  {[has |-> TRUE, content |-> t] : t \in ChunkTexts}
    \cup {[has |-> FALSE, content |-> <<>>]}

\* chunk.choices[0]?.delta?.content, tested for truthiness
HasText(chunk) == chunk.has /\ chunk.content # <<>>

\* --------------------------------------------------------- routes/ai.js
\* POST /api/ai/chat up to its first await
ChatStart(b) ==
  LET q == NewReq("chat", b) IN
  IF ~validateContent(b) THEN Reject(q, 400, "Invalid content")
  ELSE IF ~Truthy(b.prompt) THEN Reject(q, 400, "Prompt is required")
  ELSE [q EXCEPT !.calls = @ \cup {"llm"}, !.prompt = "chat", !.pc = "create"]

\* ChatCatch answering with res.status(500).json whatever was sent before
ChatCatchAlwaysJson(q, e) ==
  [q EXCEPT !.error = e, !.pc = "done", !.res = Json(@, 500, "AI service error")]

\* the catch block of POST /api/ai/chat
ChatCatch(q, e) ==
  [q EXCEPT !.error = e, !.pc = "done",
            !.res = IF ~@.headersSent
                    THEN Json(@, 500, "AI service error")
                    ELSE End(Write(@, ErrorFrame("AI service error", ErrorMessage(e))))]

\* the switch on action in POST /api/ai/generate-note
GenerateNoteSystemPrompt(action) ==
  CASE action = "expand" -> "expand"
    [] action = "summarize" -> "summarize"
    [] OTHER -> "generate"

\* POST /api/ai/generate-note up to its first await
GenerateNoteStart(b) ==
  LET q == NewReq("generate-note", b) IN
  IF ~validateContent(b) THEN Reject(q, 400, "Invalid content")
  ELSE IF ~Truthy(b.prompt) THEN Reject(q, 400, "Prompt is required")
  ELSE [q EXCEPT !.calls = @ \cup {"llm"},
                 !.prompt = GenerateNoteSystemPrompt(b.action), !.pc = "create"]

\* the catch block of POST /api/ai/generate-note
GenerateNoteCatch(q, e) ==
  [q EXCEPT !.error = e, !.pc = "done",
            !.res = IF ~@.headersSent
                    THEN Json(@, 500, "Note generation failed")
                    ELSE End(Write(@, ErrorFrame("Note generation failed", ErrorMessage(e))))]

\* RelayChunk buffering: a chunk is merged into the delta frame before it
RelayChunkMerging(q, chunk) ==
  [q EXCEPT !.received = Append(@, chunk),
            !.fullResponse = IF HasText(chunk) THEN @ \o chunk.content ELSE @,
            !.res = IF ~HasText(chunk) THEN @
                    ELSE IF @.frames # <<>> /\ IsDeltaFrame(@.frames[Len(@.frames)])
                         THEN [@ EXCEPT !.frames[Len(@.frames)] =
                                 DeltaFrame(@.content \o chunk.content)]
                         ELSE Write(@, DeltaFrame(chunk.content))]

\* the body of `for await (const chunk of completion)`
RelayChunk(q, chunk) ==
  [q EXCEPT !.received = Append(@, chunk),
            !.fullResponse = IF HasText(chunk) THEN @ \o chunk.content ELSE @,
            !.res = IF HasText(chunk) THEN Write(@, DeltaFrame(chunk.content)) ELSE @]

\* RelayFinish without res.end()
RelayFinishNoEnd(q) ==
  [q EXCEPT !.res = Write(@, FinishedFrame(removeThinkBlocks(q.fullResponse))),
            !.pc = "done"]

\* RelayFinish sending the raw accumulated text
RelayFinishRaw(q) ==
  [q EXCEPT !.res = End(Write(@, FinishedFrame(q.fullResponse))), !.pc = "done"]

\* after the loop: the cleaned full response in one finished frame, then end
RelayFinish(q) ==
  [q EXCEPT !.res = End(Write(@, FinishedFrame(removeThinkBlocks(q.fullResponse)))),
            !.pc = "done"]

\* ------------------------------------------------- routes/web-summary.js
Urls == {Undefined, "not a url", "ftp://host/page", "http://host/page", "https://host/page"}

\* new URL(string).protocol; "throws" when the string does not parse
UrlProtocol(u) ==
  CASE u = "ftp://host/page" -> "ftp:"
    [] u = "http://host/page" -> "http:"
    [] u = "https://host/page" -> "https:"
    [] OTHER -> "throws"

isValidUrl(u) == UrlProtocol(u) \in {"http:", "https:"}

ExtractBodies ==
  [kind : {"extract"}, suspicious : BOOLEAN, url : Urls]
SummarizeUrlBodies ==
  [kind : {"summarize-url"}, suspicious : {FALSE}, url : {Undefined, "not a url", "https://host/page"},
   summary_type : SummaryTypes]

\* The fetched page as cheerio sees it: its elements in document order, each
\* with the selector it answers to and its text. The letter of a text tells
\* which element it came from.
Tags == {"main", "article", "p", "div", "aside"}
Letter(tag) ==
  CASE tag = "main" -> "m" [] tag = "article" -> "a" [] tag = "p" -> "p"
    [] tag = "div" -> "d" [] OTHER -> "s"

\* texts of an element: at, below and above the 100 and 50 character marks
\* before and after whitespace is collapsed, and at and above maxContentLength
ElementTexts(x) ==
  { Text(x, MinCandidateLength),
    <<<<" ", 1>>, <<x, MinCandidateLength - 1>>, <<"\n", 1>>>>,
    <<<<x, 49>>, <<" ", 3>>, <<x, 49>>>>,
    Text(x, 30),
    <<<<x, 24>>, <<" ", 3>>, <<x, 24>>>>,
    Text(x, MaxContentLength),
    <<<<x, MaxContentLength - 1>>, <<" ", 1>>, <<x, 5>>>> }

Elements == UNION {[tag : {tag}, text : ElementTexts(Letter(tag))] : tag \in Tags}
Pages == SeqsUpTo(Elements, MaxElements)

\* a few pages: nothing, too little, enough, more than maxContentLength
SamplePages ==
  { <<>>,
    <<[tag |-> "main", text |-> Text("m", 30)]>>,
    <<[tag |-> "main", text |-> Text("m", MinCandidateLength)]>>,
    <<[tag |-> "main", text |-> <<<<"m", MaxContentLength - 1>>, <<" ", 1>>, <<"m", 5>>>>]>> }

\* $('script, style, nav, header, footer, aside, ...').remove()
Removed(el) == el.tag = "aside"

mainSelectors ==
  <<"main", "[role=\"main\"]", ".main-content", ".content", ".post-content",
    ".article-content", ".entry-content", "article", ".article-body">>

\* $(selector): the elements left in the page that the selector matches
Select(page, selector) == SelectSeq(page, LAMBDA el : ~Removed(el) /\ el.tag = selector)

\* element.text(): the texts of the matched elements, one after the other
RECURSIVE ElementsText(_)
ElementsText(els) ==
  IF els = <<>> THEN <<>> ELSE TextConcat(Head(els).text, ElementsText(Tail(els)))

\* for (const selector of mainSelectors): the longest trimmed text so far
RECURSIVE LongestCandidate(_, _, _)
LongestCandidate(page, i, content) ==
  IF i > Len(mainSelectors) THEN content
  ELSE LET element == Select(page, mainSelectors[i])
           text == TextTrim(ElementsText(element)) IN
       LongestCandidate(page, i + 1,
         IF Len(element) > 0 /\ TextLength(text) > TextLength(content) THEN text ELSE content)

\* $('p').map((i, el) => $(el).text().trim()).get().join('\n\n')
Paragraphs(page) ==
  LET ps == Select(page, "p") IN
  TextJoin([i \in 1..Len(ps) |-> TextTrim(ps[i].text)], Text("\n", 2))

\* $('body').text().trim()
BodyText(page) == TextTrim(ElementsText(SelectSeq(page, LAMBDA el : ~Removed(el))))

\* content.replace(/\s+/g, ' ').trim()
Normalize(content) == TextTrim(TextCollapse(content))

\* extractMainContent that takes the first selector that matches
extractMainContentFirstMatch(page) ==
  LET matched == {i \in 1..Len(mainSelectors) : Len(Select(page, mainSelectors[i])) > 0}
      first == IF matched = {} THEN <<>>
               ELSE LET i == CHOOSE i \in matched : \A j \in matched : i <= j IN
                    TextTrim(ElementsText(Select(page, mainSelectors[i])))
      second == IF TextLength(first) < MinCandidateLength THEN Paragraphs(page) ELSE first
      third == IF TextLength(second) < MinCandidateLength THEN BodyText(page) ELSE second IN
  Normalize(third)

\* extractMainContent that falls back to the body text before the paragraphs
extractMainContentBodyFirst(page) ==
  LET first == LongestCandidate(page, 1, <<>>)
      second == IF TextLength(first) < MinCandidateLength THEN BodyText(page) ELSE first
      third == IF TextLength(second) < MinCandidateLength THEN Paragraphs(page) ELSE second IN
  Normalize(third)

\* extractMainContent(html, url).content
extractMainContent(page) ==
  LET first == LongestCandidate(page, 1, <<>>)
      second == IF TextLength(first) < MinCandidateLength THEN Paragraphs(page) ELSE first
      third == IF TextLength(second) < MinCandidateLength THEN BodyText(page) ELSE second IN
  Normalize(third)

\* how axios.get fails: timeout, an HTTP error response, any other network error
FetchErrors == {"ECONNABORTED", "HTTP404", "ENOTFOUND"}

\* '...[content truncated]': one run that stands for the whole literal
TruncationMarker == Text("...[content truncated]", TruncationMarkerLength)

\* Truncate that cuts the text so that text and marker together fit maxContentLength
TruncateWithinLimit(content) ==
  IF TextLength(content) > MaxContentLength
  THEN TextConcat(TextSubstring(content, MaxContentLength - TruncationMarkerLength),
                  TruncationMarker)
  ELSE content

\* content.length > maxContentLength ? content.substring(0, max) + marker : content
Truncate(content) ==
  IF TextLength(content) > MaxContentLength
  THEN TextConcat(TextSubstring(content, MaxContentLength), TruncationMarker)
  ELSE content

\* ExtractStart issuing the fetch before the URL is validated
ExtractStartFetchFirst(b) ==
  LET q == [NewReq("extract", b) EXCEPT !.calls = @ \cup {"fetch"}] IN
  IF ~validateContent(b) THEN Reject(q, 400, "Invalid content")
  ELSE IF ~Truthy(b.url) THEN Reject(q, 400, "URL is required")
  ELSE IF ~isValidUrl(b.url) THEN Reject(q, 400, "Invalid URL")
  ELSE [q EXCEPT !.pc = "fetch"]

\* POST /api/web-summary/extract up to its first await
ExtractStart(b) ==
  LET q == NewReq("extract", b) IN
  IF ~validateContent(b) THEN Reject(q, 400, "Invalid content")
  ELSE IF ~Truthy(b.url) THEN Reject(q, 400, "URL is required")
  ELSE IF ~isValidUrl(b.url) THEN Reject(q, 400, "Invalid URL")
  ELSE [q EXCEPT !.calls = @ \cup {"fetch"}, !.pc = "fetch"]

\* POST /api/web-summary/extract after axios.get resolved
ExtractFetched(q, page) ==
  LET content == extractMainContent(page)
      len == TextLength(content)
      r == [q EXCEPT !.page = page, !.extracted = content, !.extractedLen = len] IN
  IF len < MinContentLength
  THEN Reject(r, 400, "No content found")
  ELSE [r EXCEPT !.pc = "done",
                 !.res = [Json(@, 200, "success") EXCEPT !.data = "extracted"]]

\* the catch block of POST /api/web-summary/extract
ExtractCatch(q, e) ==
  [q EXCEPT !.error = e, !.pc = "done",
            !.res = IF e = "ECONNABORTED" THEN Json(@, 408, "Request timeout")
                    ELSE IF e = "HTTP404" THEN Json(@, 404, "Failed to fetch content")
                    ELSE Json(@, 500, "Content extraction failed")]

\* POST /api/web-summary/summarize up to its first await
SummarizeUrlStart(b) ==
  LET q == NewReq("summarize-url", b) IN
  IF ~validateContent(b) THEN Reject(q, 400, "Invalid content")
  ELSE IF ~Truthy(b.url) THEN Reject(q, 400, "URL is required")
  ELSE IF ~isValidUrl(b.url) THEN Reject(q, 400, "Invalid URL")
  ELSE [q EXCEPT !.res = Write(@, StatusFrame("extracting")),
                 !.calls = @ \cup {"fetch"}, !.pc = "fetch"]

\* SummarizeUrlTemplate with the default label moved to the detailed case
SummarizeUrlTemplateDetailedDefault(t) ==
  CASE t = "bullet_points" -> "bullet_points"
    [] t = "brief" -> "brief"
    [] t = "general" -> "general"
    [] t = Undefined -> "general"
    [] OTHER -> "detailed"

\* the switch on summary_type in POST /api/web-summary/summarize
SummarizeUrlTemplate(t) ==
  CASE t = "bullet_points" -> "bullet_points"
    [] t = "brief" -> "brief"
    [] t = "detailed" -> "detailed"
    [] OTHER -> "general"

\* SummarizeUrlFetched without the check of the content's length
SummarizeUrlFetchedUnchecked(q, page) ==
  LET content == extractMainContent(page) IN
  [q EXCEPT !.page = page, !.extracted = content, !.extractedLen = TextLength(content),
            !.res = Write(@, StatusFrame("summarizing")),
            !.embedded = Truncate(content),
            !.embeddedLen = TextLength(Truncate(content)),
            !.prompt = SummarizeUrlTemplate(q.body.summary_type),
            !.calls = @ \cup {"llm"}, !.pc = "create"]

\* POST /api/web-summary/summarize after axios.get resolved, up to the next await
SummarizeUrlFetched(q, page) ==
  LET content == extractMainContent(page)
      len == TextLength(content)
      r == [q EXCEPT !.page = page, !.extracted = content, !.extractedLen = len] IN
  IF len < MinContentLength
  THEN [r EXCEPT !.pc = "done",
                 !.res = End(Write(@, ErrorFrame("No content found",
                                                 "Unable to extract meaningful content from URL")))]
  ELSE [r EXCEPT !.res = Write(@, StatusFrame("summarizing")),
                 !.embedded = Truncate(content),
                 !.embeddedLen = TextLength(Truncate(content)),
                 !.prompt = SummarizeUrlTemplate(q.body.summary_type),
                 !.calls = @ \cup {"llm"}, !.pc = "create"]

\* the catch block of POST /api/web-summary/summarize
SummarizeUrlCatch(q, e) ==
  [q EXCEPT !.error = e, !.pc = "done",
            !.res = IF ~@.headersSent
                    THEN IF e = "ECONNABORTED" THEN Json(@, 408, "Request timeout")
                         ELSE IF e = "HTTP404" THEN Json(@, 404, "Failed to fetch content")
                         ELSE Json(@, 500, "Web summarization failed")
                    ELSE End(Write(@, ErrorFrame("Web summarization failed", ErrorMessage(e))))]

\* the catch block of the streaming endpoint q belongs to
RelayCatch(q, e) ==
  CASE q.endpoint = "chat" -> ChatCatch(q, e)
    [] q.endpoint = "generate-note" -> GenerateNoteCatch(q, e)
    [] OTHER -> SummarizeUrlCatch(q, e)

\* ------------------------------------------ routes/ai.js, POST /summarize
\* a content field missing from the body
NoText == << <<Undefined, 0>> >>

\* content: missing, empty, short, of exactly maxContentLength characters, longer
Contents ==
  { NoText, <<>>, Text("c", 10), Text("c", MaxContentLength),
    <<<<"c", MaxContentLength - 1>>, <<" ", 1>>, <<"e", 1>>>>,
    <<<<"c", MaxContentLength>>, <<"e", 30>>>> }

SummarizeBodies ==
  [kind : {"summarize"}, suspicious : {FALSE}, content : Contents,
   summary_type : SummaryTypes]

\* the switch on summary_type in POST /api/ai/summarize
SummarizeTemplate(t) ==
  CASE t = "bullet_points" -> "bullet_points"
    [] t = "brief" -> "brief"
    [] OTHER -> "comprehensive"

\* POST /api/ai/summarize up to its first await
SummarizeStart(b) ==
  LET q == NewReq("summarize", b) IN
  IF ~validateContent(b) THEN Reject(q, 400, "Invalid content")
  ELSE IF b.content = NoText \/ b.content = <<>> THEN Reject(q, 400, "Content is required")
  ELSE [q EXCEPT !.embedded = Truncate(b.content),
                 !.embeddedLen = TextLength(Truncate(b.content)),
                 !.prompt = SummarizeTemplate(b.summary_type),
                 !.calls = @ \cup {"llm"}, !.pc = "complete"]

\* POST /api/ai/summarize after the completion resolved with the given content
SummarizeCompleted(q, content) ==
  [q EXCEPT !.pc = "done",
            !.res = [Json(@, 200, "success") EXCEPT
                       !.data = "summary", !.summary = removeThinkBlocks(content)]]

\* the catch block of POST /api/ai/summarize
SummarizeCatch(q, e) ==
  [q EXCEPT !.error = e, !.pc = "done", !.res = Json(@, 500, "Summarization failed")]

\* fullPrompt = promptTemplate + truncatedContent in POST /api/ai/summarize:
\* the pieces of the string in order, the instruction named by its label
SummarizeFullPrompt(q) ==
  << [part |-> "instruction", of |-> q.prompt, text |-> <<>>],
     [part |-> "content", of |-> "", text |-> q.embedded] >>

\* SummarizeUrlFullPrompt with the content left out of the prompt
SummarizeUrlFullPromptNoContent(q) ==
  << [part |-> "instruction", of |-> q.prompt, text |-> <<>>],
     [part |-> "title", of |-> "", text |-> <<>>],
     [part |-> "url", of |-> q.body.url, text |-> <<>>] >>

\* fullPrompt = promptTemplate + content in POST /api/web-summary/summarize;
\* every template ends with the page's title, the URL and 'Content:'
SummarizeUrlFullPrompt(q) ==
  << [part |-> "instruction", of |-> q.prompt, text |-> <<>>],
     [part |-> "title", of |-> "", text |-> <<>>],
     [part |-> "url", of |-> q.body.url, text |-> <<>>],
     [part |-> "content", of |-> "", text |-> q.embedded] >>

\* --------------------------------------------- routes/youtube-summary.js
\* A video URL is a sequence of pieces, each a literal part of the string; no
\* piece but the three markers holds a marker, <<>> is '' or a missing field.
UrlPieces ==
  {"https://www.", "youtube.com/watch?v=", "youtu.be/", "youtube.com/embed/",
   "dQw4w9WgXcQ", "abc", "&t=42", "dQw4w9W.XcQ"}

\* (?:youtube\.com\/watch\?v=|youtu\.be\/|youtube\.com\/embed\/)
UrlMarkers == {"youtube.com/watch?v=", "youtu.be/", "youtube.com/embed/"}

\* the piece up to its first character out of & \n ? #, the piece itself
\* when it holds none: what [^&\n?#]+ can take of it
BeforeStop(piece) ==
  CASE piece = "youtube.com/watch?v=" -> "youtube.com/watch"
    [] piece = "&t=42" -> ""
    [] OTHER -> piece

\* piece.length
PieceLength(piece) ==
  CASE piece = "https://www." -> 12
    [] piece = "youtube.com/watch?v=" -> 20
    [] piece = "youtu.be/" -> 9
    [] piece = "youtube.com/embed/" -> 18
    [] piece = "dQw4w9WgXcQ" -> 11
    [] piece = "abc" -> 3
    [] piece = "&t=42" -> 5
    [] piece = "dQw4w9W.XcQ" -> 11
    [] OTHER -> 0

RECURSIVE UrlLength(_)
UrlLength(url) == IF url = <<>> THEN 0 ELSE PieceLength(Head(url)) + UrlLength(Tail(url))

\* every character of the piece is one of [a-zA-Z0-9_-]
IsIdPiece(piece) == piece \in {"dQw4w9WgXcQ", "abc"}

VideoUrls == SeqsUpTo(UrlPieces, MaxUrlPieces)

SampleVideoUrls ==
  { <<>>, <<"abc">>, <<"https://www.", "youtube.com/watch?v=", "dQw4w9WgXcQ">>,
    <<"youtu.be/", "dQw4w9WgXcQ">>, <<"dQw4w9WgXcQ">> }

VideoSummaryTypes == {Undefined, "concise", "detailed", "bullet", "haiku"}

SummarizeVideoBodies ==
  [kind : {"summarize-video"}, suspicious : {FALSE}, videoUrl : SampleVideoUrls,
   summaryType : VideoSummaryTypes]

\* the same with every URL of up to MaxUrlPieces pieces
SummarizeVideoBodiesAnyUrl ==
  [kind : {"summarize-video"}, suspicious : {FALSE}, videoUrl : VideoUrls,
   summaryType : {Undefined, "detailed"}]

\* ([^&\n?#]+) from piece i on: as many characters as are not & \n ? #
RECURSIVE Capture(_, _)
Capture(url, i) ==
  IF i > Len(url) THEN <<>>
  ELSE IF BeforeStop(url[i]) = url[i] THEN <<url[i]>> \o Capture(url, i + 1)
  ELSE IF BeforeStop(url[i]) = "" THEN <<>>
  ELSE <<BeforeStop(url[i])>>

\* the positions where the first pattern matches: a marker with at least one
\* character to capture after it
MarkerMatches(url) ==
  {i \in 1..Len(url) : url[i] \in UrlMarkers /\ Capture(url, i + 1) # <<>>}

\* /^([a-zA-Z0-9_-]{11})$/
IsDirectId(url) ==
  (\A i \in 1..Len(url) : IsIdPiece(url[i])) /\ UrlLength(url) = VideoIdLength

Throws == <<"throws">>

\* extractVideoId that answers with the whole input when no pattern matches
extractVideoIdLenient(url) ==
  IF MarkerMatches(url) # {}
  THEN Capture(url, 1 + CHOOSE i \in MarkerMatches(url) : \A j \in MarkerMatches(url) : i <= j)
  ELSE url

\* extractVideoId: match[1] of the first pattern that matches (url.match takes
\* the leftmost match of a pattern), Throws when none does
extractVideoId(url) ==
  IF MarkerMatches(url) # {}
  THEN Capture(url, 1 + CHOOSE i \in MarkerMatches(url) : \A j \in MarkerMatches(url) : i <= j)
  ELSE IF IsDirectId(url) THEN url
  ELSE Throws

\* transcriptData as the caption source returns it, a list of segment texts:
\* empty, blank, below and at 10 characters once joined, at and above the
\* 1000 characters of the response's preview, above what the other
\* summarization endpoints embed at most
Transcripts ==
  { <<>>,
    <<Text(" ", 12)>>,
    <<Text("t", MinTranscriptLength - 1)>>,
    <<Text("t", 4), Text("u", MinTranscriptLength - 5)>>,
    <<Text("t", TranscriptPreviewLength)>>,
    <<Text("t", TranscriptPreviewLength), Text("u", 1)>>,
    <<Text("t", MaxContentLength + TruncationMarkerLength), Text("u", 1)>> }

\* transcriptData.map(item => item.text).join(' ')
FullTranscript(transcriptData) == TextJoin(transcriptData, Text(" ", 1))

\* the fullTranscript field of the response, without the cut
TranscriptPreviewWhole(fullTranscript) == fullTranscript

\* fullTranscript.substring(0, 1000) + (fullTranscript.length > 1000 ? '...' : '')
TranscriptPreview(fullTranscript) ==
  TextConcat(TextSubstring(fullTranscript, TranscriptPreviewLength),
             IF TextLength(fullTranscript) > TranscriptPreviewLength THEN Text(".", 3) ELSE <<>>)

\* the if / else-if on summaryType in POST /api/youtube-summary/summarize
SummarizeVideoPrompt(t) ==
  CASE t = "detailed" -> "detailed"
    [] t = "bullet" -> "bullet"
    [] OTHER -> "concise"

\* POST /api/youtube-summary/summarize up to its first await
SummarizeVideoStart(b) ==
  LET q == NewReq("summarize-video", b) IN
  IF ~validateContent(b) THEN Reject(q, 400, "Invalid content")
  ELSE IF b.videoUrl = <<>> THEN Reject(q, 400, "Video URL is required")
  ELSE IF extractVideoId(b.videoUrl) = Throws THEN Reject(q, 400, "Invalid YouTube URL")
  ELSE [q EXCEPT !.videoId = extractVideoId(b.videoUrl), !.calls = @ \cup {"captions"}, !.pc = "captions"]

\* POST /api/youtube-summary/summarize after fetchTranscript resolved
SummarizeVideoTranscript(q, transcriptData) ==
  LET fullTranscript == FullTranscript(transcriptData)
      len == TextLength(TextTrim(fullTranscript))
      r == [q EXCEPT !.extracted = fullTranscript, !.extractedLen = len] IN
  IF len < MinTranscriptLength
  THEN Reject(r, 404, "No transcript available")
  ELSE [r EXCEPT !.embedded = fullTranscript, !.embeddedLen = TextLength(fullTranscript),
                 !.prompt = SummarizeVideoPrompt(q.body.summaryType),
                 !.calls = @ \cup {"llm"}, !.pc = "complete"]

\* the inner catch of POST /api/youtube-summary/summarize (fetchTranscript failed)
SummarizeVideoNoTranscript(q, e) ==
  Reject([q EXCEPT !.error = e], 404, "Transcript not available")

\* POST /api/youtube-summary/summarize after the completion resolved
SummarizeVideoCompleted(q) ==
  [q EXCEPT !.pc = "done",
            !.res = [Json(@, 200, "success") EXCEPT
                       !.data = "summary", !.fullTranscript = TranscriptPreview(q.extracted)]]

\* the outer catch of POST /api/youtube-summary/summarize
SummarizeVideoCatch(q, e) ==
  [q EXCEPT !.error = e, !.pc = "done", !.res = Json(@, 500, "Failed to generate summary")]

\* GET /api/youtube-summary/transcript/:videoId; the route needs a parameter of
\* at least one character
VideoIdParams == {<<"abc">>, <<"dQw4w9WgXcQ">>, <<"dQw4w9W.XcQ">>}
TranscriptParams == [kind : {"transcript"}, suspicious : {FALSE}, videoId : VideoIdParams]

\* the same with every parameter of up to MaxUrlPieces pieces
TranscriptParamsAnyId ==
  [kind : {"transcript"}, suspicious : {FALSE}, videoId : VideoUrls \ {<<>>}]

TranscriptStart(b) ==
  LET q == NewReq("transcript", b) IN
  IF ~validateContent(b) THEN Reject(q, 400, "Invalid content")
  ELSE IF UrlLength(b.videoId) # VideoIdLength THEN Reject(q, 400, "Invalid video ID")
  ELSE [q EXCEPT !.videoId = b.videoId, !.calls = @ \cup {"captions"}, !.pc = "captions"]

TranscriptFetched(q, transcriptData) ==
  [q EXCEPT !.extracted = FullTranscript(transcriptData),
            !.extractedLen = TextLength(FullTranscript(transcriptData)), !.pc = "done",
            !.res = [Json(@, 200, "success") EXCEPT !.data = "transcript"]]

TranscriptCatch(q, e) ==
  [q EXCEPT !.error = e, !.pc = "done", !.res = Json(@, 404, "Transcript not available")]

\* ------------------------------------- config/firebase.js, the store
Tokens == {Undefined, "expired", "token-u1", "token-u2"}

\* admin.auth().verifyIdToken(token): the uid, "throws" for a bad token
verifyIdToken(t) ==
  CASE t = "token-u1" -> "u1"
    [] t = "token-u2" -> "u2"
    [] OTHER -> "throws"

Collections == {"notes", "workspaces"}
Collection(q) == IF q.body.kind \in {"notes"} THEN "notes" ELSE "workspaces"

\* a document that does not exist (never created, or deleted)
NoDoc == [exists |-> FALSE, userId |-> "none", title |-> <<>>, content |-> <<>>,
          name |-> <<>>, version |-> 0]

\* doc(id).get(): the snapshot of document id
Snapshot(st, coll, id) ==
  IF id \in 1..Len(st[coll]) THEN st[coll][id] ELSE NoDoc

\* the ownership check left out
OwnsUnchecked(doc, userId) == TRUE

\* the ownership check: noteData.userId !== userId, workspace.userId !== userId
Owns(doc, userId) == doc.userId = userId

\* what a response body carries of a document: its id and its data
Disclose(coll, id, doc) == [coll |-> coll, id |-> id, data |-> doc]

\* !x for a string field of a store request
Falsy(x) == x = Missing \/ x = <<>>
LongName == [i \in 1..101 |-> "w"]     \* a name of 101 characters
FullName == [i \in 1..100 |-> "w"]     \* a name of 100 characters

NoteBodies ==
  [kind : {"notes"}, suspicious : {FALSE}, token : Tokens, id : 1..MaxDocs,
   title : {Missing, <<>>, <<"t">>}, content : {Missing, <<>>}]
WorkspaceBodies ==
  [kind : {"workspaces"}, suspicious : {FALSE}, token : Tokens, id : 1..MaxDocs,
   name : {Missing, <<>>, <<" ">>, <<" ", "w", " ">>, FullName, LongName}]

\* the middleware chain of every notes / workspaces route up to the await in
\* verifyToken: validateContent, checkFirebaseConfig, the bearer token
StoreStart(endpoint, b) ==
  LET q == NewReq(endpoint, b) IN
  IF ~validateContent(b) THEN Reject(q, 400, "Invalid content")
  ELSE IF ~Truthy(b.token) THEN Reject(q, 401, "No token provided")
  ELSE [q EXCEPT !.calls = @ \cup {"verifier"}, !.pc = "verify"]

\* the catch block of verifyToken
VerifyCatch(q) == Reject([q EXCEPT !.error = "TOKEN"], 401, "Invalid token")

\* the awaited store call is issued
CallStore(q, pc) == [q EXCEPT !.calls = @ \cup {"store"}, !.pc = pc]

\* POST /api/notes after verifyToken: the noteData to add
NoteData(q) ==
  [exists |-> TRUE, userId |-> q.user,
   title |-> IF Falsy(q.body.title) THEN <<"U">> ELSE q.body.title,
   content |-> IF Falsy(q.body.content) THEN <<>> ELSE q.body.content,
   name |-> <<>>, version |-> 1]

NotesCreateEntry(q) ==
  IF Falsy(q.body.title) /\ Falsy(q.body.content)
  THEN Reject(q, 400, "Title or content is required")
  ELSE CallStore(q, "add")

\* the check of the name's length left out
WorkspaceNameAnyLength(name) == FALSE

\* POST /api/workspaces after verifyToken
WorkspaceNameInvalid(name) == Falsy(name) \/ Len(Trim(name)) = 0
WorkspaceNameTooLong(name) == Len(name) > 100

WorkspaceData(q) ==
  [exists |-> TRUE, userId |-> q.user, title |-> <<>>, content |-> <<>>,
   name |-> Trim(q.body.name), version |-> 0]

WorkspacesCreateEntry(q) ==
  IF WorkspaceNameInvalid(q.body.name) THEN Reject(q, 400, "Invalid input")
  ELSE IF WorkspaceNameTooLong(q.body.name) THEN Reject(q, 400, "Invalid input")
  ELSE CallStore(q, "add")

\* the route handler from its entry to its first await
HandlerEntry(q) ==
  CASE q.endpoint = "notes.create" -> NotesCreateEntry(q)
    [] q.endpoint = "workspaces.create" -> WorkspacesCreateEntry(q)
    [] q.endpoint \in {"notes.list", "workspaces.list"} -> CallStore(q, "query")
    [] OTHER -> CallStore(q, "get")

\* verifyToken resolved: req.user = decodedToken; next()
Verified(q) == HandlerEntry([q EXCEPT !.user = verifyIdToken(q.body.token)])

\* GET /:id after the document was read
GetFetched(q, doc) ==
  IF ~doc.exists THEN Reject(q, 404, "Not found")
  ELSE IF ~Owns(doc, q.user) THEN Reject(q, 403, "Access denied")
  ELSE [q EXCEPT !.pc = "done",
                 !.res = [Json(@, 200, "success") EXCEPT
                            !.disclosed = {Disclose(Collection(q), q.body.id, doc)}]]

\* PUT /api/notes/:id after the document was read: updateData
NotesUpdateFetched(q, doc) ==
  IF ~doc.exists THEN Reject(q, 404, "Not found")
  ELSE IF ~Owns(doc, q.user) THEN Reject(q, 403, "Access denied")
  ELSE CallStore([q EXCEPT !.upd =
                    [NoUpdate EXCEPT !.version = (IF doc.version = 0 THEN 1 ELSE doc.version) + 1,
                                     !.title = q.body.title,
                                     !.content = q.body.content]],
                 "update")

\* PUT /api/workspaces/:id after the document was read: updates
WorkspacesUpdateFetched(q, doc) ==
  IF ~doc.exists THEN Reject(q, 404, "Not found")
  ELSE IF ~Owns(doc, q.user) THEN Reject(q, 403, "Access denied")
  ELSE IF q.body.name # Missing /\ WorkspaceNameInvalid(q.body.name)
       THEN Reject(q, 400, "Invalid input")
  ELSE IF q.body.name # Missing /\ WorkspaceNameTooLong(q.body.name)
       THEN Reject(q, 400, "Invalid input")
  ELSE CallStore([q EXCEPT !.upd =
                    [NoUpdate EXCEPT !.name = IF q.body.name # Missing
                                              THEN Trim(q.body.name) ELSE Missing]],
                 "update")

\* DELETE /:id after the document was read
DeleteFetched(q, doc) ==
  IF ~doc.exists THEN Reject(q, 404, "Not found")
  ELSE IF ~Owns(doc, q.user) THEN Reject(q, 403, "Access denied")
  ELSE CallStore(q, "delete")

\* the handler after `await ...doc(id).get()` resolved
Fetched(q, doc) ==
  CASE q.endpoint \in {"notes.get", "workspaces.get"} -> GetFetched(q, doc)
    [] q.endpoint = "notes.update" -> NotesUpdateFetched(q, doc)
    [] q.endpoint = "workspaces.update" -> WorkspacesUpdateFetched(q, doc)
    [] OTHER -> DeleteFetched(q, doc)

\* the fields of updateData laid over the stored document (noteRef.update)
ApplyUpdate(doc, upd) ==
  [doc EXCEPT !.version = IF upd.version # 0 THEN upd.version ELSE @,
              !.title = IF upd.title # Missing THEN upd.title ELSE @,
              !.content = IF upd.content # Missing THEN upd.content ELSE @,
              !.name = IF upd.name # Missing THEN upd.name ELSE @]

\* where('userId', '==', userId): the caller's documents of a collection
OwnDocs(st, coll, userId) ==
  {Disclose(coll, id, st[coll][id]) :
     id \in {i \in 1..Len(st[coll]) : st[coll][i].exists /\ st[coll][i].userId = userId}}

\* the catch block of a notes / workspaces route
StoreCatch(q) == Reject([q EXCEPT !.error = "STORE"], 500, "Failed")

\* ------------------------- server.js, the middleware in front of the routes
Ips == {"ip1", "ip2"}
Days == {1, 2}
Limiters == {"general", "ai", "web", "admin"}
Overrun == 2                  \* hits a limiter counts beyond its max
MaxQuota == 3                 \* the largest limit given to dailyQuotaCheck

\* the max option of generalLimiter, aiLimiter, webSummaryLimiter (server.js)
\* and adminLimiter (routes/monitoring.js); every windowMs is 15 minutes
LimiterMax(l) ==
  CASE l = "general" -> 100
    [] l = "ai" -> 50
    [] l = "web" -> 30
    [] OTHER -> 5

\* the error of the limiter's message option
LimiterError(l) ==
  CASE l = "general" -> "Too many requests"
    [] l = "ai" -> "AI quota exceeded"
    [] l = "web" -> "Web summary quota exceeded"
    [] OTHER -> "Admin access rate limited"

\* the state of the middleware when the server starts: process.env, the
\* limiters' hit counts of client ip1 in their current windows, usageTracker.daily
\* by identifier and day, and the limit the quota middleware was built with;
\* seen counts the requests the quota middleware was given and puts the PUT
\* requests answered success:true for each note (both history only)
GateStart(adminKey, limit) ==
  [ADMIN_API_KEY |-> adminKey,
   puts |-> [i \in 1..MaxDocs |-> 0],
   hits |-> [l \in Limiters |-> 0],
   daily |-> [k \in Ips \X Days |-> 0],
   seen |-> [k \in Ips \X Days |-> 0],
   today |-> 1,
   limit |-> limit]

\* a limiter that lets one more request through than its max
OverLate(g, l) == g.hits[l] > LimiterMax(l) + 1

\* the request just counted is over the limiter's max
Over(g, l) == g.hits[l] > LimiterMax(l)

\* rateLimit middleware mounted in the order ls: each counts the request, the
\* first one over its max answers 429 and the later ones do not see the request
RECURSIVE Limit(_, _)
Limit(g, ls) ==
  IF ls = <<>> THEN [gate |-> g, by |-> "none"]
  ELSE LET h == [g EXCEPT !.hits[Head(ls)] = @ + 1] IN
       IF Over(h, Head(ls)) THEN [gate |-> h, by |-> Head(ls)]
       ELSE Limit(h, Tail(ls))

\* no limiter of ls has counted Overrun hits beyond its max
Countable(g, ls) == \A i \in 1..Len(ls) : g.hits[ls[i]] < LimiterMax(ls[i]) + Overrun

\* a || b of JavaScript for string values
Or(a, b) == IF Truthy(a) THEN a ELSE b

Keys == {Undefined, "k", "x"}
MonitoringBodies ==
  [kind : {"monitoring"}, suspicious : {FALSE}, path : {"stats", "security", "usage"},
   xApiKey : Keys, xAdminKey : Keys, apiKey : {Undefined, "k"}]

\* validateApiKey that lets every request pass
validateApiKeyOpen(g, q) == "next"

\* validateApiKey (middleware/security.js): the label of its answer, "next"
\* when it calls next()
validateApiKey(g, q) ==
  LET apiKey == Or(q.body.xApiKey, Or(q.body.xAdminKey, q.body.apiKey))
      validApiKey == g.ADMIN_API_KEY
  IN IF ~Truthy(validApiKey) THEN "Admin API key not configured"
     ELSE IF ~Truthy(apiKey) \/ apiKey # validApiKey THEN "Invalid admin API key"
     ELSE "next"

\* GET /api/monitoring/stats after adminLimiter
Stats(g, q) ==
  LET adminKey == q.body.xAdminKey IN
  IF adminKey # g.ADMIN_API_KEY THEN Reject(q, 401, "Admin access required")
  ELSE [q EXCEPT !.pc = "done", !.res = [Json(@, 200, "success") EXCEPT !.data = "stats"]]

\* GET /api/monitoring/security
Security(q) ==
  [q EXCEPT !.pc = "done", !.res = [Json(@, 200, "success") EXCEPT !.data = "checks"]]

\* a request under /api/monitoring from generalLimiter to its answer: the
\* gate and the request afterwards
Monitoring(g, b) ==
  LET q == NewReq("monitoring", b)
      general == Limit(g, <<"general">>)
      answer == validateApiKey(general.gate, q)
      admin == Limit(general.gate, <<"admin">>)
  IN IF general.by # "none"
     THEN [gate |-> general.gate, req |-> Reject(q, 429, LimiterError(general.by))]
     ELSE IF answer = "Admin API key not configured"
     THEN [gate |-> general.gate, req |-> Reject(q, 500, answer)]
     ELSE IF answer # "next"
     THEN [gate |-> general.gate, req |-> Reject(q, 401, answer)]
     ELSE IF b.path = "security"
     THEN [gate |-> general.gate, req |-> Security(q)]
     ELSE IF b.path # "stats"
     THEN [gate |-> general.gate, req |-> Reject(q, 404, "Not Found")]
     ELSE IF admin.by # "none"
     THEN [gate |-> admin.gate, req |-> Reject(q, 429, LimiterError(admin.by))]
     ELSE [gate |-> admin.gate, req |-> Stats(admin.gate, q)]

\* usageTracker.getUsage(identifier)
getUsage(g, identifier) == g.daily[<<identifier, g.today>>]

\* usageTracker.checkLimit that still passes at the limit
checkLimitInclusive(g, identifier, limit) == getUsage(g, identifier) <= limit

\* usageTracker.checkLimit(identifier, limit)
checkLimit(g, identifier, limit) == getUsage(g, identifier) < limit

\* usageTracker.track(identifier): the tracker afterwards
track(g, identifier) == [g EXCEPT !.daily[<<identifier, g.today>>] = @ + 1]

\* dailyQuotaCheck(limit) given the request q of req.ip: the gate and the
\* request afterwards; a request passed on has "next" among its calls
dailyQuotaCheck(g, q, limit) ==
  LET identifier == q.ip
      counted == [g EXCEPT !.seen[<<identifier, g.today>>] = @ + 1]
      newUsage == getUsage(track(counted, identifier), identifier)
      remaining == IF limit - newUsage > 0 THEN limit - newUsage ELSE 0
      k == counted.seen[<<identifier, g.today>>]
  IN IF ~checkLimit(g, identifier, limit)
     THEN [gate |-> counted,
           req |-> [Reject(q, 429, "Daily quota exceeded") EXCEPT
                      !.seq = k, !.res.reported = getUsage(g, identifier)]]
     ELSE [gate |-> track(counted, identifier),
           req |-> [q EXCEPT !.seq = k, !.pc = "done", !.calls = @ \cup {"next"},
                             !.res.dailyUsage = newUsage,
                             !.res.dailyLimit = limit,
                             !.res.dailyRemaining = remaining]]

\* ------------------------------------------------ the pipeline's steps
\* slot s is free: it holds no request
Free(s) == req[s].pc = "idle"

Step(s, q) == req' = [req EXCEPT ![s] = q] /\ UNCHANGED <<store, gate>>

Streaming(q) == q.endpoint \in {"chat", "generate-note", "summarize-url"}

Chat(s) == Free(s) /\ \E b \in ChatBodies : Step(s, ChatStart(b))

GenerateNote(s) == Free(s) /\ \E b \in GenerateNoteBodies : Step(s, GenerateNoteStart(b))

SummarizeUrl(s) == Free(s) /\ \E b \in SummarizeUrlBodies : Step(s, SummarizeUrlStart(b))

Extract(s) == Free(s) /\ \E b \in ExtractBodies : Step(s, ExtractStart(b))

Summarize(s) == Free(s) /\ \E b \in SummarizeBodies : Step(s, SummarizeStart(b))

SummarizeVideo(s) == Free(s) /\ \E b \in SummarizeVideoBodies : Step(s, SummarizeVideoStart(b))

SummarizeVideoAnyUrl(s) ==
  Free(s) /\ \E b \in SummarizeVideoBodiesAnyUrl : Step(s, SummarizeVideoStart(b))

TranscriptAnyId(s) == Free(s) /\ \E b \in TranscriptParamsAnyId : Step(s, TranscriptStart(b))

\* requests of the web-summary routes with a URL that is fetched
ExtractValidUrl(s) ==
  Free(s) /\ \E b \in [kind : {"extract"}, suspicious : {FALSE}, url : {"https://host/page"}] :
              Step(s, ExtractStart(b))

SummarizeUrlValidUrl(s) ==
  Free(s) /\ \E b \in [kind : {"summarize-url"}, suspicious : {FALSE},
                        url : {"https://host/page"}, summary_type : {Undefined, "brief"}] :
              Step(s, SummarizeUrlStart(b))

Transcript(s) == Free(s) /\ \E b \in TranscriptParams : Step(s, TranscriptStart(b))

\* await axios.get(url, {timeout, ...}) resolves
ExtractFetchResolved(s) ==
  /\ req[s].endpoint = "extract" /\ req[s].pc = "fetch"
  /\ \E page \in SamplePages : Step(s, ExtractFetched(req[s], page))

ExtractFetchRejected(s) ==
  /\ req[s].endpoint = "extract" /\ req[s].pc = "fetch"
  /\ \E e \in FetchErrors : Step(s, ExtractCatch(req[s], e))

SummarizeUrlFetchResolved(s) ==
  /\ req[s].endpoint = "summarize-url" /\ req[s].pc = "fetch"
  /\ \E page \in SamplePages : Step(s, SummarizeUrlFetched(req[s], page))

\* the same with every page of up to MaxElements elements as response.data
ExtractFetchResolvedAnyPage(s) ==
  /\ req[s].endpoint = "extract" /\ req[s].pc = "fetch"
  /\ \E page \in Pages : Step(s, ExtractFetched(req[s], page))

SummarizeUrlFetchResolvedAnyPage(s) ==
  /\ req[s].endpoint = "summarize-url" /\ req[s].pc = "fetch"
  /\ \E page \in Pages : Step(s, SummarizeUrlFetched(req[s], page))

SummarizeUrlFetchRejected(s) ==
  /\ req[s].endpoint = "summarize-url" /\ req[s].pc = "fetch"
  /\ \E e \in FetchErrors : Step(s, SummarizeUrlCatch(req[s], e))

\* await client.chat.completions.create({..., stream: true}) resolves
CreateResolved(s) ==
  /\ Streaming(req[s]) /\ req[s].pc = "create"
  /\ Step(s, [req[s] EXCEPT !.pc = "stream"])

CreateRejected(s) ==
  /\ Streaming(req[s]) /\ req[s].pc = "create"
  /\ Step(s, RelayCatch(req[s], "LLM"))

\* the upstream stream yields its next chunk
StreamChunk(s) ==
  /\ Streaming(req[s]) /\ req[s].pc = "stream"
  /\ Len(req[s].received) < MaxChunks
  /\ \E c \in Chunks : Step(s, RelayChunk(req[s], c))

\* the upstream stream ends
StreamEnd(s) ==
  /\ Streaming(req[s]) /\ req[s].pc = "stream"
  /\ Step(s, RelayFinish(req[s]))

\* the upstream stream fails while it is iterated
StreamError(s) ==
  /\ Streaming(req[s]) /\ req[s].pc = "stream"
  /\ Step(s, RelayCatch(req[s], "STREAM"))

\* the caller closes the connection of a streaming request in progress; no
\* handler listens for it (no req.on('close'), no AbortController)
Disconnect(s) ==
  /\ Streaming(req[s]) /\ req[s].pc \in {"fetch", "create", "stream"}
  /\ req[s].connected
  /\ Step(s, [req[s] EXCEPT !.connected = FALSE])

\* await client.chat.completions.create({..., stream: false}) resolves with a
\* message content out of T
SummarizeResolvedWith(s, T) ==
  /\ req[s].endpoint = "summarize" /\ req[s].pc = "complete"
  /\ \E content \in T : Step(s, [SummarizeCompleted(req[s], content) EXCEPT !.completion = content])

SampleCompletions == {<<>>, <<"<think>", "a", "</think>", "a">>}

SummarizeResolved(s) == SummarizeResolvedWith(s, SampleCompletions)

\* the same with every text of up to MaxTextLen tokens as the message content
SummarizeResolvedAnyText(s) == SummarizeResolvedWith(s, SeqsUpTo(ThinkAlphabet, MaxTextLen))

SummarizeRejected(s) ==
  /\ req[s].endpoint = "summarize" /\ req[s].pc = "complete"
  /\ Step(s, SummarizeCatch(req[s], "LLM"))

\* await YoutubeTranscript.fetchTranscript(videoId) resolves
SummarizeVideoCaptionsResolved(s) ==
  /\ req[s].endpoint = "summarize-video" /\ req[s].pc = "captions"
  /\ \E transcriptData \in Transcripts :
       Step(s, SummarizeVideoTranscript(req[s], transcriptData))

SummarizeVideoCaptionsRejected(s) ==
  /\ req[s].endpoint = "summarize-video" /\ req[s].pc = "captions"
  /\ Step(s, SummarizeVideoNoTranscript(req[s], "NOCAPTIONS"))

SummarizeVideoResolved(s) ==
  /\ req[s].endpoint = "summarize-video" /\ req[s].pc = "complete"
  /\ Step(s, SummarizeVideoCompleted(req[s]))

SummarizeVideoRejected(s) ==
  /\ req[s].endpoint = "summarize-video" /\ req[s].pc = "complete"
  /\ Step(s, SummarizeVideoCatch(req[s], "LLM"))

TranscriptResolved(s) ==
  /\ req[s].endpoint = "transcript" /\ req[s].pc = "captions"
  /\ \E transcriptData \in Transcripts : Step(s, TranscriptFetched(req[s], transcriptData))

TranscriptRejected(s) ==
  /\ req[s].endpoint = "transcript" /\ req[s].pc = "captions"
  /\ Step(s, TranscriptCatch(req[s], "NOCAPTIONS"))

\* --------------------------------- the notes / workspaces routes' steps
StoreEndpoints ==
  {"notes.list", "notes.get", "notes.create", "notes.update", "notes.delete",
   "workspaces.list", "workspaces.get", "workspaces.create", "workspaces.update",
   "workspaces.delete"}

\* a request of a notes route arrives
NotesRequest(s) ==
  /\ Free(s)
  /\ \E e \in {"notes.list", "notes.get", "notes.create", "notes.update", "notes.delete"} :
       \E b \in NoteBodies : Step(s, StoreStart(e, b))

\* a request of a workspaces route arrives
WorkspacesRequest(s) ==
  /\ Free(s)
  /\ \E e \in {"workspaces.list", "workspaces.get", "workspaces.create",
               "workspaces.update", "workspaces.delete"} :
       \E b \in WorkspaceBodies : Step(s, StoreStart(e, b))

\* await admin.auth().verifyIdToken(token)
VerifyResolved(s) ==
  /\ req[s].pc = "verify" /\ verifyIdToken(req[s].body.token) # "throws"
  /\ Step(s, Verified(req[s]))

VerifyRejected(s) ==
  /\ req[s].pc = "verify" /\ verifyIdToken(req[s].body.token) = "throws"
  /\ Step(s, VerifyCatch(req[s]))

\* await doc(id).get() resolves with the document as it is now
GetResolved(s) ==
  /\ req[s].pc = "get"
  /\ LET doc == Snapshot(store, Collection(req[s]), req[s].body.id) IN
       /\ req[s].endpoint = "notes.update" /\ doc.exists => doc.version < MaxVersion
       /\ Step(s, Fetched(req[s], doc))

\* await query.get() resolves
QueryResolved(s) ==
  /\ req[s].pc = "query"
  /\ Step(s, [req[s] EXCEPT !.pc = "done",
                !.res = [Json(@, 200, "success") EXCEPT
                           !.disclosed = OwnDocs(store, Collection(req[s]), req[s].user)]])

\* await collection.add(data) resolves: the document gets a fresh id
AddResolved(s) ==
  /\ req[s].pc = "add"
  /\ Len(store.notes) + Len(store.workspaces) < MaxDocs
  /\ LET coll == Collection(req[s])
         doc == IF coll = "notes" THEN NoteData(req[s]) ELSE WorkspaceData(req[s])
     IN /\ store' = [store EXCEPT ![coll] = Append(@, doc)]
        /\ req' = [req EXCEPT ![s] =
                     [req[s] EXCEPT !.pc = "done",
                        !.res = [Json(@, 201, "success") EXCEPT
                                   !.disclosed = {Disclose(coll, Len(store[coll]) + 1, doc)}]]]
        /\ UNCHANGED gate

\* await doc(id).update(updateData) resolves; it fails when the document is gone
UpdateResolved(s) ==
  /\ req[s].pc = "update"
  /\ LET coll == Collection(req[s])
         id == req[s].body.id
     IN IF Snapshot(store, coll, id).exists
        THEN /\ store' = [store EXCEPT ![coll][id] = ApplyUpdate(@, req[s].upd)]
             /\ req' = [req EXCEPT ![s] = CallStore(req[s], "reget")]
             /\ UNCHANGED gate
        ELSE Step(s, StoreCatch(req[s]))

\* the second await doc(id).get() of PUT resolves: the response carries
\* updatedDoc.data(), nothing when the document is gone
RegetResolved(s) ==
  /\ req[s].pc = "reget"
  /\ LET coll == Collection(req[s])
         id == req[s].body.id
         doc == Snapshot(store, coll, id)
     IN /\ req' = [req EXCEPT ![s] =
                     [req[s] EXCEPT !.pc = "done",
                        !.res = [Json(@, 200, "success") EXCEPT
                                   !.disclosed = IF doc.exists THEN {Disclose(coll, id, doc)}
                                                 ELSE {}]]]
        /\ gate' = IF coll = "notes" THEN [gate EXCEPT !.puts[id] = @ + 1] ELSE gate
        /\ UNCHANGED store

\* await doc(id).delete() resolves
DeleteResolved(s) ==
  /\ req[s].pc = "delete"
  /\ LET coll == Collection(req[s])
         id == req[s].body.id
     IN /\ store' = [store EXCEPT ![coll] =
                       [i \in 1..Len(@) |-> IF i = id THEN NoDoc ELSE @[i]]]
        /\ req' = [req EXCEPT ![s] = [req[s] EXCEPT !.pc = "done", !.res = Json(@, 200, "success")]]
        /\ UNCHANGED gate

\* an awaited store call fails
StoreRejected(s) ==
  /\ req[s].pc \in {"get", "query", "add", "update", "reget", "delete"}
  /\ Step(s, StoreCatch(req[s]))

\* the response of slot s is finished; the server takes the next request
Release(s) ==
  /\ req[s].pc = "done"
  /\ Step(s, IdleReq)

\* ------------------------------------- requests through the middleware
\* the gate and the request of slot s after a middleware chain answered
Pass(s, m) ==
  /\ req' = [req EXCEPT ![s] = m.req]
  /\ gate' = m.gate
  /\ UNCHANGED store

\* a request under /api/monitoring arrives and is answered
MonitoringRequest(s) ==
  /\ Free(s) /\ Countable(gate, <<"general", "admin">>)
  /\ \E b \in MonitoringBodies : Pass(s, Monitoring(gate, b))

\* POST /api/ai/summarize behind generalLimiter and aiLimiter; seq records
\* which of the client's requests of the route's own limiter window this one
\* is (history only)
LimitedBodies ==
  {b \in SummarizeBodies : b.summary_type = "general" /\ b.content \in {NoText, Text("c", 10)}}

AiRequest(s) ==
  /\ Free(s) /\ Countable(gate, <<"general", "ai">>)
  /\ \E b \in LimitedBodies :
       LET l == Limit(gate, <<"general", "ai">>)
           q == IF l.by # "none"
                THEN Reject(NewReq("summarize", b), 429, LimiterError(l.by))
                ELSE SummarizeStart(b)
       IN Pass(s, [gate |-> l.gate, req |-> [q EXCEPT !.seq = gate.hits["ai"] + 1]])

\* POST /api/web-summary/extract behind generalLimiter and webSummaryLimiter
WebRequest(s) ==
  /\ Free(s) /\ Countable(gate, <<"general", "web">>)
  /\ \E b \in {x \in ExtractBodies : ~x.suspicious /\ x.url \in {Undefined, "https://host/page"}} :
       LET l == Limit(gate, <<"general", "web">>)
           q == IF l.by # "none"
                THEN Reject(NewReq("extract", b), 429, LimiterError(l.by))
                ELSE ExtractStart(b)
       IN Pass(s, [gate |-> l.gate, req |-> [q EXCEPT !.seq = gate.hits["web"] + 1]])

\* GET /health behind generalLimiter
HealthRequest(s) ==
  /\ Free(s) /\ Countable(gate, <<"general">>)
  /\ LET l == Limit(gate, <<"general">>)
         q == NewReq("health", NoBody) IN
     Pass(s, [gate |-> l.gate,
              req |-> IF l.by # "none" THEN Reject(q, 429, LimiterError(l.by))
                      ELSE [q EXCEPT !.pc = "done", !.res = Json(@, 200, "healthy")]])

\* windowMs have passed since limiter l began to count the client's requests
WindowExpires(l) ==
  /\ gate.hits[l] > 0
  /\ gate' = [gate EXCEPT !.hits[l] = 0]
  /\ UNCHANGED <<req, store>>

\* the client was silent for windowMs: every limiter's window has passed
WindowsExpire ==
  /\ \E l \in Limiters : gate.hits[l] > 0
  /\ gate' = [gate EXCEPT !.hits = [l \in Limiters |-> 0]]
  /\ UNCHANGED <<req, store>>

\* a request of client ip is given to dailyQuotaCheck(gate.limit)
QuotaRequest(s) ==
  /\ Free(s)
  /\ \E ip \in Ips :
       /\ gate.seen[<<ip, gate.today>>] < gate.limit + Overrun
       /\ Pass(s, dailyQuotaCheck(gate, [NewReq("quota", NoBody) EXCEPT !.ip = ip], gate.limit))

\* midnight: new Date().toDateString() changes
DayEnds ==
  /\ gate.today + 1 \in Days
  /\ gate' = [gate EXCEPT !.today = @ + 1]
  /\ UNCHANGED <<req, store>>

\* a request of the owner u1 to create, update or delete a note arrives
NotesRequestOwner(s) ==
  /\ Free(s)
  /\ \E e \in {"notes.create", "notes.update", "notes.delete"} :
       \E b \in {x \in NoteBodies : x.token = "token-u1"} : Step(s, StoreStart(e, b))

\* --------------------------------------------------------- specification
EmptyStore == [notes |-> <<>>, workspaces |-> <<>>]

Init ==
  /\ req = [s \in Slots |-> IdleReq]
  /\ store = EmptyStore
  /\ gate = GateStart("k", 0)

\* the AI, web-summary and youtube-summary routes; requests of these routes
\* share no state, so one request slot shows all their behaviour
Next ==
  \/ Chat(1) \/ GenerateNote(1) \/ SummarizeUrl(1) \/ Extract(1)
  \/ Summarize(1) \/ SummarizeVideo(1) \/ Transcript(1)
  \/ ExtractFetchResolved(1) \/ ExtractFetchRejected(1)
  \/ SummarizeUrlFetchResolved(1) \/ SummarizeUrlFetchRejected(1)
  \/ CreateResolved(1) \/ CreateRejected(1)
  \/ StreamChunk(1) \/ StreamEnd(1) \/ StreamError(1) \/ Disconnect(1)
  \/ SummarizeResolved(1) \/ SummarizeRejected(1)
  \/ SummarizeVideoCaptionsResolved(1) \/ SummarizeVideoCaptionsRejected(1)
  \/ SummarizeVideoResolved(1) \/ SummarizeVideoRejected(1)
  \/ TranscriptResolved(1) \/ TranscriptRejected(1)
  \/ Release(1)

Spec == Init /\ [][Next]_vars

\* every route of the server, one request at a time; the upstream stream of a
\* streaming request yields no chunk
NextServer ==
  \/ Chat(1) \/ GenerateNote(1) \/ SummarizeUrl(1) \/ Extract(1)
  \/ Summarize(1) \/ SummarizeVideo(1) \/ Transcript(1)
  \/ ExtractFetchResolved(1) \/ ExtractFetchRejected(1)
  \/ SummarizeUrlFetchResolved(1) \/ SummarizeUrlFetchRejected(1)
  \/ CreateResolved(1) \/ CreateRejected(1)
  \/ StreamEnd(1) \/ StreamError(1)
  \/ SummarizeResolved(1) \/ SummarizeRejected(1)
  \/ SummarizeVideoCaptionsResolved(1) \/ SummarizeVideoCaptionsRejected(1)
  \/ SummarizeVideoResolved(1) \/ SummarizeVideoRejected(1)
  \/ TranscriptResolved(1) \/ TranscriptRejected(1)
  \/ NotesRequest(1) \/ WorkspacesRequest(1)
  \/ VerifyResolved(1) \/ VerifyRejected(1)
  \/ GetResolved(1) \/ QueryResolved(1) \/ AddResolved(1)
  \/ UpdateResolved(1) \/ RegetResolved(1) \/ DeleteResolved(1)
  \/ StoreRejected(1)
  \/ Release(1)

SpecServer == Init /\ [][NextServer]_vars

\* POST /api/ai/summarize alone, the completion answering with any text of up
\* to MaxTextLen tokens: removeThinkBlocks applied to every such text
NextThink ==
  \/ Summarize(1) \/ SummarizeResolvedAnyText(1) \/ SummarizeRejected(1)
  \/ Release(1)

SpecThink == Init /\ [][NextThink]_vars

\* the web-summary routes and POST /api/ai/summarize, the fetch answering with
\* any page of up to MaxElements elements: extractMainContent and the
\* truncation applied to every such page
NextContent ==
  \/ ExtractValidUrl(1) \/ SummarizeUrlValidUrl(1) \/ Summarize(1)
  \/ ExtractFetchResolvedAnyPage(1) \/ ExtractFetchRejected(1)
  \/ SummarizeUrlFetchResolvedAnyPage(1) \/ SummarizeUrlFetchRejected(1)
  \/ CreateResolved(1) \/ CreateRejected(1) \/ StreamEnd(1)
  \/ SummarizeResolved(1) \/ SummarizeRejected(1)
  \/ Release(1)

SpecContent == Init /\ [][NextContent]_vars

\* the youtube-summary routes with any video URL and any videoId parameter of
\* up to MaxUrlPieces pieces
NextVideo ==
  \/ SummarizeVideoAnyUrl(1) \/ TranscriptAnyId(1)
  \/ SummarizeVideoCaptionsResolved(1) \/ SummarizeVideoCaptionsRejected(1)
  \/ SummarizeVideoResolved(1) \/ SummarizeVideoRejected(1)
  \/ TranscriptResolved(1) \/ TranscriptRejected(1)
  \/ Release(1)

SpecVideo == Init /\ [][NextVideo]_vars

\* the routes under /api/monitoring, for every value of ADMIN_API_KEY
InitMonitoring ==
  /\ req = [s \in Slots |-> IdleReq]
  /\ store = EmptyStore
  /\ \E adminKey \in {Undefined, "", "k"} : gate = GateStart(adminKey, 0)

NextMonitoring ==
  \/ MonitoringRequest(1)
  \/ \E l \in {"general", "admin"} : WindowExpires(l)
  \/ Release(1)

SpecMonitoring == InitMonitoring /\ [][NextMonitoring]_vars

\* one client's requests to POST /api/ai/summarize and GET /health through the
\* rate limiters, each limiter's window expiring on its own
NextLimits ==
  \/ AiRequest(1) \/ HealthRequest(1)
  \/ SummarizeResolved(1) \/ SummarizeRejected(1)
  \/ \E l \in {"general", "ai"} : WindowExpires(l)
  \/ Release(1)

SpecLimits == Init /\ [][NextLimits]_vars

\* one client's requests of one day to POST /api/ai/summarize and
\* POST /api/web-summary/extract
NextDaily ==
  \/ AiRequest(1) \/ WebRequest(1)
  \/ SummarizeResolved(1) \/ SummarizeRejected(1)
  \/ ExtractFetchResolved(1) \/ ExtractFetchRejected(1)
  \/ WindowsExpire
  \/ Release(1)

SpecDaily == Init /\ [][NextDaily]_vars

\* the owner's requests to create, update and delete notes, two of them in
\* flight at a time and their awaited store calls resolving in any order; no
\* store call fails but the update of a deleted note
NextNotes ==
  \E s \in Slots :
    \/ NotesRequestOwner(s)
    \/ VerifyResolved(s)
    \/ GetResolved(s) \/ AddResolved(s)
    \/ UpdateResolved(s) \/ RegetResolved(s) \/ DeleteResolved(s)
    \/ Release(s)

SpecNotes == Init /\ [][NextNotes]_vars

\* dailyQuotaCheck(limit) for every limit up to MaxQuota, given the requests of
\* two clients over two days
InitQuota ==
  /\ req = [s \in Slots |-> IdleReq]
  /\ store = EmptyStore
  /\ \E limit \in 0..MaxQuota : gate = GateStart("k", limit)

NextQuota ==
  \/ QuotaRequest(1)
  \/ DayEnds
  \/ Release(1)

SpecQuota == InitQuota /\ [][NextQuota]_vars

\* ===================================================================
\* Properties of the streaming relay (specification Spec)
\* ===================================================================
Last(fs) == fs[Len(fs)]

\* the texts of the delta frames of fs, in the order written
RECURSIVE DeltaTexts(_)
DeltaTexts(fs) ==
  IF fs = <<>> THEN <<>>
  ELSE IF IsDeltaFrame(Head(fs)) THEN <<Head(fs).content>> \o DeltaTexts(Tail(fs))
       ELSE DeltaTexts(Tail(fs))

RECURSIVE Concat(_)
Concat(ts) == IF ts = <<>> THEN <<>> ELSE Head(ts) \o Concat(Tail(ts))

\* every frame is of exactly one kind
OneKind(f) ==
  Cardinality({k \in {"status", "delta", "finished", "error"} :
                 \/ k = "status" /\ IsStatusFrame(f)
                 \/ k = "delta" /\ IsDeltaFrame(f)
                 \/ k = "finished" /\ IsFinishedFrame(f)
                 \/ k = "error" /\ IsErrorFrame(f)}) = 1

\* the terminal frames of fs are exactly its last frame
OneTerminalLast(fs) ==
  /\ fs # <<>>
  /\ IsTerminalFrame(Last(fs))
  /\ \A i \in 1..(Len(fs) - 1) : ~IsTerminalFrame(fs[i])

\* C1: the frames of a streaming request are status frames, then delta frames,
\* then one terminal frame: no status frame follows a delta frame, a terminal
\* frame is the last frame and the response is ended with it, and a finished
\* request that wrote frames has its terminal frame.
C1_FrameOrder ==
  \A s \in Slots :
    LET q == req[s]
        fs == q.res.frames
    IN Streaming(q) /\ fs # <<>> =>
         /\ \A i \in 1..Len(fs) : OneKind(fs[i])
         /\ \A i, j \in 1..Len(fs) : i < j => ~(IsDeltaFrame(fs[i]) /\ IsStatusFrame(fs[j]))
         /\ \A i \in 1..Len(fs) : IsTerminalFrame(fs[i]) => i = Len(fs)
         /\ IsTerminalFrame(Last(fs)) <=> q.res.ended
         /\ q.pc = "done" => OneTerminalLast(fs) /\ q.res.ended

\* a finished summarize-url request with status, delta and finished frames
C1_Witness ==
  \E s \in Slots :
    LET fs == req[s].res.frames IN
      /\ req[s].endpoint = "summarize-url" /\ req[s].pc = "done"
      /\ Len(fs) >= 4
      /\ IsStatusFrame(fs[1]) /\ IsStatusFrame(fs[2]) /\ IsDeltaFrame(fs[3])
      /\ IsFinishedFrame(Last(fs))

\* C2: an upstream failure is answered with an HTTP error status and a JSON
\* body exactly when no frame was written before it; otherwise it is one error
\* frame, written last, then the end of the stream; once a frame is written the
\* status code stays the 200 the headers went out with and no JSON body is sent.
C2_FailureReporting ==
  \A s \in Slots :
    LET q == req[s]
        fs == q.res.frames
    IN Streaming(q) =>
         /\ fs # <<>> => q.res.statusCode = 200 /\ q.res.jsonBody = ""
         /\ q.pc = "done" /\ q.error # "none" =>
              IF fs = <<>>
              THEN q.res.statusCode >= 400 /\ q.res.jsonBody # "" /\ q.res.ended
              ELSE /\ Len(fs) >= 2
                   /\ IsErrorFrame(Last(fs))
                   /\ \A i \in 1..(Len(fs) - 1) : ~IsErrorFrame(fs[i])
                   /\ q.res.ended

\* a chat request whose upstream failed after a delta frame was written
C2_Witness ==
  \E s \in Slots :
    /\ req[s].endpoint = "chat" /\ req[s].pc = "done" /\ req[s].error = "STREAM"
    /\ Len(req[s].res.frames) >= 2
    /\ IsDeltaFrame(req[s].res.frames[1])

AllHaveText(chunks) == \A i \in 1..Len(chunks) : HasText(chunks[i])
ChunkTextsOf(chunks) == [i \in 1..Len(chunks) |-> chunks[i].content]

\* C3 as claimed: N chunks with text give N delta frames carrying the same texts
\* in the same order, and a finished request whose upstream stream was opened
\* has exactly one terminal frame after them.
C3_Original ==
  \A s \in Slots :
    LET q == req[s]
        fs == q.res.frames
    IN Streaming(q) /\ q.pc \in {"stream", "done"} /\ q.error # "LLM"
         /\ "llm" \in q.calls /\ AllHaveText(q.received) =>
         /\ DeltaTexts(fs) = ChunkTextsOf(q.received)
         /\ q.pc = "done" => OneTerminalLast(fs)

\* C3 amended: as claimed, except that a stream that fails before any frame was
\* written (N = 0, chat and generate-note) leaves no frame: the failure is the
\* HTTP 500 response.
C3_Ordering ==
  \A s \in Slots :
    LET q == req[s]
        fs == q.res.frames
    IN Streaming(q) /\ q.pc \in {"stream", "done"} /\ q.error # "LLM"
         /\ "llm" \in q.calls /\ AllHaveText(q.received) =>
         /\ DeltaTexts(fs) = ChunkTextsOf(q.received)
         /\ q.pc = "done" =>
              IF fs = <<>>
              THEN /\ q.received = <<>> /\ q.error = "STREAM"
                   /\ q.endpoint \in {"chat", "generate-note"}
                   /\ q.res.statusCode = 500
              ELSE OneTerminalLast(fs)

\* a finished request that relayed MaxChunks chunks, two of them different
C3_Witness ==
  \E s \in Slots :
    /\ Streaming(req[s]) /\ req[s].pc = "done"
    /\ Len(req[s].received) = MaxChunks /\ AllHaveText(req[s].received)
    /\ req[s].received[1] # req[s].received[2]
    /\ IsFinishedFrame(Last(req[s].res.frames))

\* C4: the fullResponse of the finished frame is the concatenation of the texts
\* of the delta frames written before it, in order, passed through
\* removeThinkBlocks (think blocks cut out, surrounding whitespace trimmed), and
\* there is one finished frame.
C4_FullResponse ==
  \A s \in Slots :
    LET q == req[s]
        fs == q.res.frames
    IN Streaming(q) /\ fs # <<>> /\ IsFinishedFrame(Last(fs)) =>
         /\ Last(fs).fullResponse = removeThinkBlocks(Concat(DeltaTexts(fs)))
         /\ \A i \in 1..(Len(fs) - 1) : ~IsFinishedFrame(fs[i])

\* a finished frame whose fullResponse has a think block and whitespace removed
C4_Witness ==
  \E s \in Slots :
    LET fs == req[s].res.frames IN
      /\ Streaming(req[s]) /\ fs # <<>> /\ IsFinishedFrame(Last(fs))
      /\ Len(DeltaTexts(fs)) = MaxChunks
      /\ Last(fs).fullResponse # Concat(DeltaTexts(fs))
      /\ Last(fs).fullResponse # <<>>

\* C5 as claimed: after the caller has disconnected, no further upstream chunk
\* is consumed for the request.
C5_StopsOnDisconnect ==
  [][\A s \in Slots :
       ~req[s].connected /\ req[s].pc = "stream" => req'[s].received = req[s].received]_vars

\* ===================================================================
\* Properties of the whole server (specification SpecServer)
\* ===================================================================
\* C6: a response carries only documents whose userId is the authenticated
\* caller's, and every step that adds, changes or deletes a document is the step
\* of a request whose authenticated user is the document's userId; a request of
\* any other user discloses nothing of it and leaves the store as it is.
C6_Isolation ==
  /\ [](\A s \in Slots : \A d \in req[s].res.disclosed :
          d.data.userId = req[s].user /\ req[s].user \in Users)
  /\ [][\A coll \in Collections : \A id \in 1..Len(store'[coll]) :
          (id > Len(store[coll]) \/ store'[coll][id] # store[coll][id]) =>
            \E s \in Slots :
              /\ req'[s] # req[s]
              /\ req[s].user \in Users
              /\ IF id > Len(store[coll])
                 THEN store'[coll][id].userId = req[s].user
                 ELSE store[coll][id].userId = req[s].user]_vars

\* a request for a document of another user was answered 403, the document
\* still in the store
C6_Witness ==
  \E s \in Slots :
    /\ req[s].pc = "done" /\ req[s].res.statusCode = 403
    /\ req[s].res.disclosed = {}
    /\ LET doc == Snapshot(store, Collection(req[s]), req[s].body.id) IN
         doc.exists /\ doc.userId # req[s].user /\ req[s].user \in Users

Unrecognized(q) ==
  \/ q.endpoint = "generate-note" /\ q.body.action = "translate"
  \/ q.endpoint \in {"summarize", "summarize-url"} /\ q.body.summary_type = "haiku"
  \/ q.endpoint = "summarize-video" /\ q.body.summaryType = "haiku"

\* a required field of the request is missing or malformed
RequiredFieldBad(q) ==
  \/ q.endpoint = "generate-note" /\ ~Truthy(q.body.prompt)
  \/ q.endpoint = "summarize" /\ q.body.content \in {NoText, <<>>}
  \/ q.endpoint = "summarize-url" /\ ~isValidUrl(q.body.url)
  \/ q.endpoint = "summarize-video" /\ extractVideoId(q.body.videoUrl) = Throws

\* the page or transcript fetched for the request is long enough to summarize
SourceFound(q) ==
  /\ q.endpoint = "summarize-url" => q.extractedLen >= MinContentLength
  /\ q.endpoint = "summarize-video" => q.extractedLen >= MinTranscriptLength

\* the instruction an endpoint uses when the field is missing
DefaultInstruction(q) ==
  CASE q.endpoint = "generate-note" -> "generate"
    [] q.endpoint = "summarize" -> "comprehensive"
    [] q.endpoint = "summarize-url" -> "general"
    [] OTHER -> "concise"

\* C8 as claimed: a request with an unrecognized style or action value makes no
\* LLM call and ends with status 400.
C8_Original ==
  \A s \in Slots :
    Unrecognized(req[s]) =>
      /\ "llm" \notin req[s].calls
      /\ req[s].pc = "done" => req[s].res.statusCode = 400

\* C8 amended: an unrecognized style or action value is not rejected: it selects
\* the endpoint's default instruction, with which the LLM is called, and such a
\* request is answered 400 only for a missing or malformed required field; with
\* its required field in order, its source found and no failure it is answered 200.
C8_UnrecognizedIsDefault ==
  \A s \in Slots :
    LET q == req[s] IN
    Unrecognized(q) =>
      /\ "llm" \in q.calls => q.prompt = DefaultInstruction(q)
      /\ q.pc = "done" /\ q.res.statusCode = 400 => RequiredFieldBad(q)
      /\ q.pc = "done" /\ ~RequiredFieldBad(q) /\ q.error = "none" /\ SourceFound(q) =>
           "llm" \in q.calls /\ q.res.statusCode = 200

\* a summarize-url request with an unrecognized summary_type that was streamed
\* to its finished frame
C8_Witness ==
  \E s \in Slots :
    /\ Unrecognized(req[s]) /\ req[s].endpoint = "summarize-url"
    /\ "llm" \in req[s].calls /\ req[s].pc = "done"
    /\ req[s].res.frames # <<>> /\ IsFinishedFrame(Last(req[s].res.frames))

\* C9 as claimed: in extract and summarize-url a content fetch that timed out is
\* answered with status 408 'Request timeout'.
C9_TimeoutReported ==
  \A s \in Slots :
    req[s].endpoint \in {"extract", "summarize-url"} /\ req[s].pc = "done"
      /\ req[s].error = "ECONNABORTED" =>
        req[s].res.statusCode = 408 /\ req[s].res.jsonBody = "Request timeout"

\* ===================================================================
\* Properties of removeThinkBlocks (specification SpecThink)
\* ===================================================================
IsDelimiter(t) == IsOpen(t) \/ IsClose(t)

\* nesting depth after the first i tokens of t
RECURSIVE Depth(_, _)
Depth(t, i) ==
  IF i = 0 THEN 0
  ELSE Depth(t, i - 1) + (IF IsOpen(t[i]) THEN 1 ELSE IF IsClose(t[i]) THEN -1 ELSE 0)

\* every delimiter of t belongs to a block: each closing one closes an open block
WellFormed(t) == (\A i \in 1..Len(t) : Depth(t, i) >= 0) /\ Depth(t, Len(t)) = 0
HasBlock(t) == \E i \in 1..Len(t) : IsOpen(t[i])
NestedBlocks(t) == \E i \in 1..Len(t) : Depth(t, i) >= 2

\* the tokens of t outside every block
RECURSIVE Outside(_, _)
Outside(t, i) ==
  IF i > Len(t) THEN <<>>
  ELSE IF ~IsDelimiter(t[i]) /\ Depth(t, i) = 0 THEN <<t[i]>> \o Outside(t, i + 1)
       ELSE Outside(t, i + 1)

Contains(t, P(_)) == \E i \in 1..Len(t) : P(t[i])

Summarized(q) == q.endpoint = "summarize" /\ q.pc = "done" /\ q.error = "none"

\* C10 as claimed: of a text whose think blocks are several or nested, what is
\* left is the text outside every block, trimmed: no delimiter, nothing from
\* inside a block.
C10_Original ==
  \A s \in Slots :
    LET q == req[s] IN
    Summarized(q) /\ q.res.statusCode = 200 /\ WellFormed(q.completion)
      /\ HasBlock(q.completion) =>
        q.res.summary = Trim(Outside(q.completion, 1))

\* C10 amended: of a text whose think blocks are not nested, what is left is the
\* text outside every block, trimmed, with no delimiter; of a text with a block
\* nested inside another, the removal ends at the first closing delimiter and a
\* closing delimiter of an outer block is left in the result.
C10_FlatBlocksRemoved ==
  \A s \in Slots :
    LET q == req[s] IN
    Summarized(q) /\ q.res.statusCode = 200 /\ WellFormed(q.completion)
      /\ HasBlock(q.completion) =>
        IF NestedBlocks(q.completion)
        THEN Contains(q.res.summary, IsClose) /\ ~Contains(q.res.summary, IsOpen)
        ELSE /\ q.res.summary = Trim(Outside(q.completion, 1))
             /\ ~Contains(q.res.summary, IsDelimiter)

\* a text with two blocks in a row, text between them, cut down to that text
C10_Witness ==
  \E s \in Slots :
    LET q == req[s] IN
      /\ Summarized(q) /\ WellFormed(q.completion) /\ ~NestedBlocks(q.completion)
      /\ Cardinality({i \in 1..Len(q.completion) : IsOpen(q.completion[i])}) = 2
      /\ q.res.summary = <<"a">>

\* an opening delimiter at position i of t that no closing delimiter follows
Unterminated(t, i) == IsOpen(t[i]) /\ FirstCloseAfter(t, i) = 0

\* t ends with u
EndsWith(t, u) ==
  Len(u) <= Len(t) /\ SubSeq(t, Len(t) - Len(u) + 1, Len(t)) = u

\* C11: of a text with an opening delimiter that no closing delimiter follows,
\* the result keeps that delimiter and all the text after it (up to the
\* whitespace trimmed off the end), and when the text has no terminated block
\* at all the result is the whole text, trimmed.
C11_UnterminatedKept ==
  \A s \in Slots :
    LET q == req[s]
        t == q.completion IN
    Summarized(q) /\ q.res.statusCode = 200 =>
      /\ \A i \in 1..Len(t) :
           Unterminated(t, i) => EndsWith(q.res.summary, TrimRight(SubSeq(t, i, Len(t))))
      /\ (\E i \in 1..Len(t) : Unterminated(t, i))
           /\ (\A i \in 1..Len(t) : IsOpen(t[i]) => Unterminated(t, i))
           => q.res.summary = Trim(t)

\* a terminated block followed by an unterminated one: the first is removed,
\* the second is kept with the text after it
C11_Witness ==
  \E s \in Slots :
    LET q == req[s] IN
      /\ Summarized(q)
      /\ q.completion = <<"<think>", "</think>", "a", "<THINK>", "a">>
      /\ q.res.summary = <<"a", "<THINK>", "a">>

\* ===================================================================
\* Properties of the prompt's source text (specifications SpecContent, Spec)
\* ===================================================================
\* t.substring(from): what substring(0, from) leaves
RECURSIVE TextFrom(_, _)
TextFrom(t, from) ==
  IF t = <<>> \/ from <= 0 THEN t
  ELSE IF Head(t)[2] <= from
       THEN TextFrom(Tail(t), from - Head(t)[2])
       ELSE << <<Head(t)[1], Head(t)[2] - from>> >> \o Tail(t)

\* the request's prompt has been built and handed to the LLM
Prompted(q) == "llm" \in q.calls

\* the text the endpoint summarizes: the content field, the extracted page
\* content, the joined transcript
SourceText(q) == IF q.endpoint = "summarize" THEN q.body.content ELSE q.extracted

\* C12: in summarize and summarize-url, a source text longer than
\* maxContentLength is embedded as its first maxContentLength characters
\* followed by '...[content truncated]', any other source text as it is.
C12_TruncationLaw ==
  \A s \in Slots :
    LET q == req[s]
        source == SourceText(q) IN
    q.endpoint \in {"summarize", "summarize-url"} /\ Prompted(q) =>
      IF TextLength(source) > MaxContentLength
      THEN /\ TextSubstring(q.embedded, MaxContentLength) = TextSubstring(source, MaxContentLength)
           /\ TextFrom(q.embedded, MaxContentLength) = TruncationMarker
           /\ TextLength(TextSubstring(source, MaxContentLength)) = MaxContentLength
      ELSE q.embedded = source

\* a page whose content is cut in the middle of its text: the marker follows
\* the first maxContentLength characters, the rest is gone
C12_Witness ==
  \E s \in Slots :
    LET q == req[s] IN
      /\ q.endpoint = "summarize-url" /\ Prompted(q)
      /\ q.extracted = <<<<"m", MaxContentLength - 1>>, <<" ", 1>>, <<"m", 5>>>>
      /\ q.embedded = <<<<"m", MaxContentLength - 1>>, <<" ", 1>>, <<"...[content truncated]", 22>>>>

\* C13 as claimed: in summarize, summarize-url and summarize-video the source
\* text embedded in the prompt is never longer than maxContentLength plus the
\* length of the truncation marker.
C13_SourceCapped ==
  \A s \in Slots :
    LET q == req[s] IN
    q.endpoint \in {"summarize", "summarize-url", "summarize-video"} /\ Prompted(q) =>
      TextLength(q.embedded) <= MaxContentLength + TruncationMarkerLength

\* ===================================================================
\* Properties of the content extractor (specification SpecContent)
\* ===================================================================
\* axios.get resolved with a page and the handler has gone on from there
PageFetched(q) ==
  /\ q.endpoint \in {"extract", "summarize-url"}
  /\ "fetch" \in q.calls /\ q.pc # "fetch" /\ q.error \notin FetchErrors

\* the request was answered with the empty-content error and nothing else
EmptyContentReported(q) ==
  /\ q.pc = "done" /\ q.res.ended /\ q.res.data = "none" /\ "llm" \notin q.calls
  /\ IF q.endpoint = "extract"
     THEN q.res.statusCode = 400 /\ q.res.jsonBody = "No content found" /\ q.res.frames = <<>>
     ELSE /\ q.res.frames = <<StatusFrame("extracting"),
                               ErrorFrame("No content found",
                                          "Unable to extract meaningful content from URL")>>
          /\ q.res.jsonBody = ""

\* C14: a fetched page whose extracted content, whitespace collapsed, is
\* shorter than 50 characters is answered with the empty-content error (400
\* from extract, an error frame from summarize-url), with no success payload
\* and no LLM call.
C14_EmptyContent ==
  \A s \in Slots :
    LET q == req[s] IN
    PageFetched(q) /\ TextLength(q.extracted) < MinContentLength => EmptyContentReported(q)

\* a body text of 51 characters that is 49 characters long once its
\* whitespace is collapsed, refused by summarize-url
C14_Witness ==
  \E s \in Slots :
    LET q == req[s] IN
      /\ PageFetched(q) /\ q.endpoint = "summarize-url"
      /\ q.page = <<[tag |-> "div", text |-> <<<<"d", 24>>, <<" ", 3>>, <<"d", 24>>>>]>>
      /\ TextLength(q.extracted) = MinContentLength - 1
      /\ EmptyContentReported(q)

\* the selectors of mainSelectors, by position, that match an element of the page
Candidates(page) == {i \in 1..Len(mainSelectors) : Len(Select(page, mainSelectors[i])) > 0}

\* the trimmed text of the i-th selector's elements
CandidateText(page, i) == TextTrim(ElementsText(Select(page, mainSelectors[i])))

\* some selector matches text of 100 or more trimmed characters
CandidateFound(page) ==
  \E i \in Candidates(page) : TextLength(CandidateText(page, i)) >= MinCandidateLength

\* the candidate no other is longer than, the earliest of those of its length
Longest(page) ==
  CHOOSE i \in Candidates(page) :
    \A j \in Candidates(page) :
      \/ TextLength(CandidateText(page, i)) > TextLength(CandidateText(page, j))
      \/ TextLength(CandidateText(page, i)) = TextLength(CandidateText(page, j)) /\ i <= j

\* C15: when some selector matches text of 100 or more trimmed characters, the
\* content is the whitespace-collapsed text of the selector whose trimmed text
\* is longest, wherever it stands in the priority list; of two of the same
\* length the earlier one.
C15_LongestCandidate ==
  \A s \in Slots :
    LET q == req[s] IN
    PageFetched(q) /\ CandidateFound(q.page) =>
      q.extracted = Normalize(CandidateText(q.page, Longest(q.page)))

\* main and article both match, article's text is the longer: the content is
\* article's, the later selector of the list
C15_Witness ==
  \E s \in Slots :
    LET q == req[s] IN
      /\ PageFetched(q) /\ q.endpoint = "extract" /\ q.res.statusCode = 200
      /\ q.page = <<[tag |-> "main", text |-> Text("m", 100)],
                    [tag |-> "article", text |-> <<<<"a", 49>>, <<" ", 3>>, <<"a", 49>>>>]>>
      /\ q.extracted = <<<<"a", 49>>, <<" ", 1>>, <<"a", 49>>>>

\* C16: when no selector's text reaches 100 characters the content is the text
\* of all paragraphs, joined; when that is under 100 characters too it is the
\* body text; a selector's or the paragraphs' text of 100 or more characters
\* is not replaced by a later fallback.
C16_Fallbacks ==
  \A s \in Slots :
    LET q == req[s] IN
    PageFetched(q) =>
      IF CandidateFound(q.page)
      THEN q.extracted = Normalize(CandidateText(q.page, Longest(q.page)))
      ELSE IF TextLength(Paragraphs(q.page)) >= MinCandidateLength
      THEN q.extracted = Normalize(Paragraphs(q.page))
      ELSE q.extracted = Normalize(BodyText(q.page))

\* a main element of 30 characters and a paragraph of 100: the content is the
\* paragraph's text, not main's and not the body's
C16_Witness ==
  \E s \in Slots :
    LET q == req[s] IN
      /\ PageFetched(q) /\ q.endpoint = "extract" /\ q.res.statusCode = 200
      /\ q.page = <<[tag |-> "main", text |-> Text("m", 30)],
                    [tag |-> "p", text |-> Text("p", 100)]>>
      /\ q.extracted = Text("p", 100)

\* ===================================================================
\* Properties of the youtube-summary routes (specification SpecVideo)
\* ===================================================================
\* the position of the leftmost URL marker with an identifier after it
FirstMarker(url) == CHOOSE i \in MarkerMatches(url) : \A j \in MarkerMatches(url) : i <= j

\* C17: of a video URL with a watch?v=, short-link or embed marker the
\* identifier is what follows the marker, up to the first & ? # or line end;
\* failing that, of an input that is 11 identifier characters, the input
\* itself; with that identifier the transcript is fetched. An input that
\* matches neither is answered 400 and no transcript is fetched.
C17_VideoId ==
  \A s \in Slots :
    LET q == req[s]
        url == q.body.videoUrl IN
    q.endpoint = "summarize-video" =>
      IF MarkerMatches(url) # {}
      THEN q.videoId = Capture(url, FirstMarker(url) + 1) /\ "captions" \in q.calls
      ELSE IF IsDirectId(url)
      THEN q.videoId = url /\ "captions" \in q.calls
      ELSE /\ q.pc = "done" /\ q.res.statusCode = 400 /\ q.calls = {}
           /\ q.res.jsonBody \in {"Video URL is required", "Invalid YouTube URL"}

\* a watch URL with a second parameter: the identifier ends at the &
C17_Witness ==
  \E s \in Slots :
    LET q == req[s] IN
      /\ q.endpoint = "summarize-video"
      /\ q.body.videoUrl = <<"youtube.com/watch?v=", "dQw4w9WgXcQ", "&t=42">>
      /\ q.videoId = <<"dQw4w9WgXcQ">> /\ "captions" \in q.calls

\* C18 as claimed: GET transcript/:videoId answers 400, and fetches no
\* captions, for every videoId that is not 11 characters out of letters,
\* digits, hyphen and underscore.
C18_BadIdRejected ==
  \A s \in Slots :
    LET q == req[s] IN
    q.endpoint = "transcript" /\ ~IsDirectId(q.body.videoId) =>
      q.pc = "done" /\ q.res.statusCode = 400 /\ "captions" \notin q.calls

\* the caption source was asked and has answered, by failing or with a result
CaptionsAnswered(q) ==
  /\ q.endpoint \in {"summarize-video", "transcript"}
  /\ "captions" \in q.calls /\ q.pc # "captions"

\* C19 as claimed: when the caption source fails or returns an empty
\* transcript, summarize-video and GET transcript answer 404 and no LLM call
\* is made.
C19_NoCaptionsNotFound ==
  \A s \in Slots :
    LET q == req[s] IN
    CaptionsAnswered(q) /\ (q.error = "NOCAPTIONS" \/ q.extracted = <<>>) =>
      q.pc = "done" /\ q.res.statusCode = 404 /\ "llm" \notin q.calls

\* summarize-video has answered with a summary
VideoSummarized(q) ==
  q.endpoint = "summarize-video" /\ q.pc = "done" /\ q.res.data = "summary"

Styles == {"general", "brief", "bullet_points", "detailed"}

\* the style a request asks for: a missing summary_type stands for general
StyleOf(q) == IF q.body.summary_type = Undefined THEN "general" ELSE q.body.summary_type

\* the instruction fragment the endpoint's switch selects for a style
Fragment(endpoint, t) ==
  IF endpoint = "summarize" THEN SummarizeTemplate(t) ELSE SummarizeUrlTemplate(t)

\* the prompt the endpoint sends to the LLM
PromptOf(q) ==
  IF q.endpoint = "summarize" THEN SummarizeFullPrompt(q) ELSE SummarizeUrlFullPrompt(q)

\* how many pieces of a prompt satisfy Is
Occurrences(prompt, Is(_)) == Cardinality({i \in 1..Len(prompt) : Is(prompt[i])})

\* a summarization request of one of the four styles whose prompt was built
StyledPrompt(q) ==
  /\ q.endpoint \in {"summarize", "summarize-url"}
  /\ "llm" \in q.calls
  /\ StyleOf(q) \in Styles

\* C21: for each of the four styles the built summarization prompt holds the
\* style's own instruction fragment exactly once, a fragment no other style
\* has, and the (possibly truncated) source text exactly once; a missing style
\* is treated as general.
C21_StyleFragments ==
  \A s \in Slots :
    LET q == req[s] IN
    StyledPrompt(q) =>
      LET own == Fragment(q.endpoint, StyleOf(q))
          IsOwn(p) == p.part = "instruction" /\ p.of = own
          IsSource(p) == p.part = "content" /\ p.text = q.embedded
      IN /\ Occurrences(PromptOf(q), IsOwn) = 1
         /\ \A u \in Styles \ {StyleOf(q)} : Fragment(q.endpoint, u) # own
         /\ Occurrences(PromptOf(q), IsSource) = 1
         /\ q.body.summary_type = Undefined => q.prompt = Fragment(q.endpoint, "general")

\* C21 amended: the prompt holds the instruction fragment its switch selects for
\* the style once and the source text once, and a missing style selects what
\* general selects. In POST /api/web-summary/summarize the four styles have four
\* different fragments; in POST /api/ai/summarize only bullet_points and brief
\* have their own, general and detailed both select the comprehensive one.
C21_FragmentPerBranch ==
  \A s \in Slots :
    LET q == req[s] IN
    StyledPrompt(q) =>
      LET own == Fragment(q.endpoint, StyleOf(q))
          IsOwn(p) == p.part = "instruction" /\ p.of = own
          IsSource(p) == p.part = "content" /\ p.text = q.embedded
      IN /\ Occurrences(PromptOf(q), IsOwn) = 1
         /\ Occurrences(PromptOf(q), IsSource) = 1
         /\ q.body.summary_type = Undefined => q.prompt = Fragment(q.endpoint, "general")
         /\ q.endpoint = "summarize-url" =>
              \A u \in Styles \ {StyleOf(q)} : Fragment(q.endpoint, u) # own
         /\ q.endpoint = "summarize" =>
              /\ \A u \in Styles \ {StyleOf(q)} :
                    (Fragment(q.endpoint, u) = own) <=> {u, StyleOf(q)} = {"general", "detailed"}
              /\ StyleOf(q) \in {"general", "detailed"} => own = "comprehensive"

\* a detailed summary was asked of POST /api/ai/summarize and answered
C21_Witness ==
  /\ req[1].endpoint = "summarize"
  /\ req[1].body.summary_type = "detailed"
  /\ "llm" \in req[1].calls /\ req[1].pc = "done"

\* ===================================================================
\* Properties of the middleware in front of the routes
\* (specifications SpecMonitoring, SpecLimits, SpecDaily, SpecQuota)

\* the request of slot s went to /api/monitoring and was answered
MonitoringAnswered(q) == q.endpoint = "monitoring" /\ q.pc = "done"

\* C22: a request to any /api/monitoring endpoint that presents the configured
\* admin key in the X-API-Key header is never answered 401.
C22_KeyAuthorized ==
  \A s \in Slots :
    LET q == req[s] IN
    MonitoringAnswered(q) /\ Truthy(gate.ADMIN_API_KEY)
      /\ q.body.xApiKey = gate.ADMIN_API_KEY
      => q.res.statusCode # 401

\* a request to POST /api/ai/summarize that came through the limiters
AiLimited(q) == q.endpoint = "summarize" /\ q.seq > 0

\* C23 as claimed: at most 50 requests of one client reach the /api/ai handlers
\* in a window; every further one is answered 429 'AI quota exceeded' and makes
\* no LLM call.
C23_Original ==
  \A s \in Slots :
    LET q == req[s] IN
    AiLimited(q) /\ q.seq > LimiterMax("ai") =>
      /\ q.pc = "done" /\ q.res.statusCode = 429
      /\ q.res.jsonBody = "AI quota exceeded"
      /\ "llm" \notin q.calls

\* C23 amended: within one window of aiLimiter at most 50 requests of one
\* client reach the /api/ai handlers; every further one is answered 429 and
\* makes no LLM call, with the error 'AI quota exceeded' of aiLimiter or the
\* error 'Too many requests' of generalLimiter, which counts every request
\* first; none of the first 50 is refused by aiLimiter.
C23_WindowQuota ==
  \A s \in Slots :
    LET q == req[s] IN
    AiLimited(q) =>
      /\ q.seq > LimiterMax("ai") =>
           /\ q.pc = "done" /\ q.res.statusCode = 429
           /\ q.res.jsonBody \in {"AI quota exceeded", "Too many requests"}
           /\ "llm" \notin q.calls
      /\ q.seq <= LimiterMax("ai") => q.res.jsonBody # "AI quota exceeded"
      /\ "llm" \in q.calls => q.seq <= LimiterMax("ai")

\* the 51st request of a window to POST /api/ai/summarize was refused by
\* generalLimiter
C23_Witness ==
  /\ AiLimited(req[1]) /\ req[1].seq = LimiterMax("ai") + 1
  /\ req[1].res.jsonBody = "Too many requests"

\* the daily limits SECURITY.md states for the AI and the web-scraping endpoints
DailyAiLimit == 50
DailyWebLimit == 20

\* the daily limit documented for the endpoint of q
DailyLimit(q) == IF q.endpoint = "summarize" THEN DailyAiLimit ELSE DailyWebLimit

\* C24: once a client has made 50 requests to the AI endpoints, or 20 to the
\* web-scraping endpoints, in a day, every further request of the day to those
\* endpoints is answered 429 'Daily quota exceeded'. (All requests of SpecDaily
\* arrive on one day, and seq counts those of the current limiter window, so a
\* request with seq beyond the limit is a further request of the day.)
C24_DailyQuota ==
  \A s \in Slots :
    LET q == req[s] IN
    q.endpoint \in {"summarize", "extract"} /\ q.seq > DailyLimit(q) =>
      /\ q.pc = "done" /\ q.res.statusCode = 429
      /\ q.res.jsonBody = "Daily quota exceeded"

\* a request that was given to dailyQuotaCheck
Quotaed(q) == q.endpoint = "quota" /\ q.pc = "done"

\* the smaller of two numbers
Least(a, b) == IF a < b THEN a ELSE b

\* C25: of the requests one identifier sends through dailyQuotaCheck(limit) on
\* one day exactly the first limit are passed on, the k-th with X-Daily-Usage k
\* and X-Daily-Remaining limit - k; every later one is answered 429 and does not
\* raise the recorded usage, which never exceeds limit.
C25_QuotaSequence ==
  /\ \A k \in Ips \X Days :
       /\ gate.daily[k] <= gate.limit
       /\ gate.daily[k] = Least(gate.seen[k], gate.limit)
  /\ \A s \in Slots :
       LET q == req[s] IN
       Quotaed(q) =>
         IF q.seq <= gate.limit
         THEN /\ "next" \in q.calls /\ q.res.statusCode = 200 /\ ~q.res.ended
              /\ q.res.dailyUsage = q.seq
              /\ q.res.dailyRemaining = gate.limit - q.seq
         ELSE /\ "next" \notin q.calls /\ q.res.statusCode = 429
              /\ q.res.jsonBody = "Daily quota exceeded"
              /\ q.res.reported = gate.limit

\* the request after the last one passed on was refused, on the second day too
C25_Witness ==
  /\ gate.limit = MaxQuota /\ gate.today = 2
  /\ Quotaed(req[1]) /\ req[1].seq = gate.limit + 1
  /\ gate.seen[<<req[1].ip, 1>>] > gate.limit
  /\ gate.daily[<<req[1].ip, 2>>] = gate.limit

\* the answer of q carries the usage statistics
StatsDisclosed(q) == q.endpoint = "monitoring" /\ q.res.data = "stats"

\* C28: GET /api/monitoring/stats discloses the statistics only when
\* ADMIN_API_KEY is configured (non-empty) and the request carries a header
\* whose value equals it; with no key configured, or no key in the request,
\* nothing is disclosed.
C28_StatsOnlyWithKey ==
  \A s \in Slots :
    LET q == req[s] IN
    StatsDisclosed(q) =>
      /\ q.body.path = "stats"
      /\ Truthy(gate.ADMIN_API_KEY)
      /\ gate.ADMIN_API_KEY \in {q.body.xApiKey, q.body.xAdminKey}

\* the statistics were disclosed to a request carrying the key
C28_Witness ==
  /\ StatsDisclosed(req[1]) /\ req[1].res.statusCode = 200
  /\ req[1].body.xAdminKey = gate.ADMIN_API_KEY

\* ===================================================================
\* Properties of concurrent note requests (specification SpecNotes)

\* a PUT /api/notes/:id of note id is between its arrival and its answer
PutInFlight(id) ==
  \E s \in Slots :
    /\ req[s].endpoint = "notes.update" /\ req[s].body.id = id
    /\ req[s].pc \notin {"idle", "done"}

\* C26: however the owner's concurrent PUT /api/notes/:id requests interleave,
\* once they are answered the stored version is 1 plus the number of PUT
\* requests answered success:true: no update is lost.
C26_NoLostUpdate ==
  \A id \in 1..Len(store.notes) :
    store.notes[id].exists /\ ~PutInFlight(id) =>
      store.notes[id].version = 1 + gate.puts[id]

\* a PUT /api/notes/:id answered success:true
PutSucceeded(q) ==
  q.endpoint = "notes.update" /\ q.pc = "done" /\ q.res.statusCode = 200

\* C27: however it interleaves with other PUT and DELETE requests on the note,
\* a PUT /api/notes/:id answered success:true returns a note that exists in
\* the store and holds every field value this PUT wrote.
C27_ReturnsOwnWrite ==
  \A s \in Slots :
    LET q == req[s] IN
    PutSucceeded(q) =>
      \E d \in q.res.disclosed :
        /\ d.id = q.body.id /\ d.data.exists
        /\ d.data.version = q.upd.version
        /\ q.upd.title # Missing => d.data.title = q.upd.title
        /\ q.upd.content # Missing => d.data.content = q.upd.content

\* ===================================================================
\* Properties of the stored documents (specification SpecServer)

\* a name as the claim wants it stored
ValidName(n) ==
  /\ Len(n) > 0 /\ Len(n) <= 100
  /\ ~IsSpace(n[1]) /\ ~IsSpace(n[Len(n)])

\* the request of slot s is answered 400 in this step
Refused(s) ==
  /\ req[s].pc # "done" /\ req'[s].pc = "done"
  /\ req'[s].res.statusCode = 400

\* C29: after any sequence of successful create and update requests every
\* stored workspace name is non-empty, has no leading or trailing whitespace
\* and is at most 100 characters long, and a create or update answered 400
\* leaves the stored workspaces unchanged.
C29_StoredNames ==
  /\ [](\A id \in 1..Len(store.workspaces) :
          store.workspaces[id].exists => ValidName(store.workspaces[id].name))
  /\ [][\A s \in Slots :
          req'[s].endpoint \in {"workspaces.create", "workspaces.update"} /\ Refused(s)
            => store'.workspaces = store.workspaces]_vars

\* a workspace was renamed with a name given between two spaces
C29_Witness ==
  /\ req[1].endpoint = "workspaces.update" /\ req[1].pc = "done"
  /\ req[1].res.statusCode = 200 /\ req[1].body.name = <<" ", "w", " ">>
  /\ store.workspaces[1].exists /\ store.workspaces[1].name = <<"w">>

\* C30: after any sequence of successful create and update requests every
\* stored note has a non-empty title or a non-empty content.
C30_TitleOrContent ==
  \A id \in 1..Len(store.notes) :
    store.notes[id].exists =>
      store.notes[id].title # <<>> \/ store.notes[id].content # <<>>

====
